---- MODULE Spec2Model ----
(***************************************************************************)
(* Model of the indusmind telemetry backend: the Express routes of the     *)
(* telemetry router, the per-view services (PuissanceService,              *)
(* CurrentService) that fan a request out into parallel ThingsBoard        *)
(* queries and reduce the raw points, and the 401 refresh-and-retry loop   *)
(* of ThingsboardTelemetryService.                                         *)
(*                                                                         *)
(* The specifications share the variables:                                 *)
(*   Spec       one HTTP request through a route / view service; every     *)
(*              telemetryService.getTimeseries call is a promise that      *)
(*              settles (fulfilled with raw points, or rejected).          *)
(*   RetrySpec  concurrent getTimeseries / getLatestAttributes calls of    *)
(*              ThingsboardTelemetryService against the upstream.          *)
(*                                                                         *)
(*   RangeSpec  the calculateTimeRanges functions of the view services and *)
(*              the day start of the KPI calculator, applied to a clock.   *)
(*   ReduceSpec the reducers of the view services, applied to the raw      *)
(*              points one sub-query returned.                             *)
(*   ThermalSpec ThermalService.getThermalManagementData over the sensors. *)
(*   KpiSpec    calculateKPIs of the KPI calculator over fetched points.   *)
(*   EnergySpec the energy-history controller and service.                 *)
(*   MetersSpec the batch route of the global meters.                      *)
(*   RelaySpec  ThermalService.controlRelay.                               *)
(*   ChartSpec  ThermalService.getTemperatureChartData.                    *)
(*                                                                         *)
(* Time is counted in minutes since the Unix epoch (the code counts        *)
(* milliseconds); JavaScript numbers are modelled as exact rationals.      *)
(***************************************************************************)
EXTENDS Integers, Sequences, FiniteSets, TLC

VARIABLES
    route,      \* the route handling the request ("none" before it arrives)
    query,      \* req.query of the request
    scenario,   \* which upstream data set / clock the request runs against
    pc,         \* position of the route handler
    device,     \* outcome of deviceService.validateDevice
    tsCall,     \* telemetryService.getTimeseries call of each sub-query
    sub,        \* state of the promise each sub-query contributes to the join
    outbound,   \* outbound calls made so far for the request
    resp,       \* the HTTP response (sent = FALSE until it is written)
    calls,      \* RetrySpec: the telemetry-service calls in progress
    tokenStale, \* RetrySpec: the bearer token is expired upstream
    refreshLog, \* RetrySpec: number of refreshToken invocations so far
    clock,      \* RangeSpec / ReduceSpec: Date.now() of the request
    zone,       \* RangeSpec / ReduceSpec: offset of the server's local time
    fetched,  \* ReduceSpec: the raw points the upstream returned
    calc,       \* RangeSpec / ReduceSpec: the function applied and its result
    thermal,    \* ThermalSpec: one getThermalManagementData request
    relay,      \* RelaySpec: one controlRelay call
    energy,     \* EnergySpec: one energy-history request
    meters      \* MetersSpec: one getGlobalMetersData call

vars == <<route, query, scenario, pc, device, tsCall, sub, outbound, resp,
          calls, tokenStale, refreshLog, clock, zone, fetched, calc,
          thermal, relay, energy, meters>>

viewVars == <<route, query, scenario, pc, device, tsCall, sub, outbound, resp>>
retryVars == <<calls, tokenStale, refreshLog>>
calcVars == <<clock, zone, fetched, calc>>
svcVars == <<thermal, relay, energy, meters>>

----------------------------------------------------------------------------
(* Bounds of the model *)

\* number of upstream scenarios (data set + clock) a request can run against
NumScenarios == 2
\* number of concurrent telemetry-service calls in RetrySpec
MaxCalls == 2

----------------------------------------------------------------------------
(* JavaScript values *)

RECURSIVE Gcd(_, _)
Gcd(a, b) == IF b = 0 THEN a ELSE Gcd(b, a % b)

Abs(n) == IF n < 0 THEN -n ELSE n

\* a JS number n/d in lowest terms
Rat(n, d) ==
    LET g == Gcd(Abs(n), d) IN [t |-> "num", n |-> n \div g, d |-> d \div g]
Num(n) == [t |-> "num", n |-> n, d |-> 1]
NaN    == [t |-> "nan", n |-> 0, d |-> 1]
Undefined == [t |-> "undefined", n |-> 0, d |-> 1]
Null   == [t |-> "null", n |-> 0, d |-> 1]

IsNaN(x) == x.t = "nan"
\* JS truthiness of a number: 0 and NaN are falsy
Truthy(x) == x.t = "num" /\ x.n # 0
\* x || y
OrElse(x, y) == IF Truthy(x) THEN x ELSE y
Plus(x, y) ==
    IF x.t = "num" /\ y.t = "num" THEN Rat(x.n * y.d + y.n * x.d, x.d * y.d) ELSE NaN
\* x > 0
Positive(x) == x.t = "num" /\ x.n > 0

\* A raw upstream value is a string: one that parses as a number, or one that
\* does not.  parseFloat gives the number, or NaN.
RawNum(n) == [ok |-> TRUE, n |-> n]
RawBad    == [ok |-> FALSE, n |-> 0]
parseFloat(v) == IF v.ok THEN Num(v.n) ELSE NaN

Point(ts, v) == [ts |-> ts, value |-> v]

----------------------------------------------------------------------------
(* Calendar (proleptic Gregorian, as JavaScript Date) *)

MinuteMs == 1
HourMs == 60 * MinuteMs
DayMs == 24 * HourMs

DaysFromCivil(y, m, d) ==
    LET yy  == IF m <= 2 THEN y - 1 ELSE y
        era == yy \div 400
        yoe == yy - era * 400
        mp  == (m + 9) % 12
        doy == (153 * mp + 2) \div 5 + d - 1
        doe == yoe * 365 + yoe \div 4 - yoe \div 100 + doy
    IN era * 146097 + doe - 719468

CivilFromDays(z) ==
    LET zz  == z + 719468
        era == zz \div 146097
        doe == zz - era * 146097
        yoe == (doe - doe \div 1460 + doe \div 36524 - doe \div 146096) \div 365
        doy == doe - (365 * yoe + yoe \div 4 - yoe \div 100)
        mp  == (5 * doy + 2) \div 153
        d   == doy - (153 * mp + 2) \div 5 + 1
        m   == IF mp < 10 THEN mp + 3 ELSE mp - 9
        y   == yoe + era * 400 + (IF m <= 2 THEN 1 ELSE 0)
    IN [y |-> y, m |-> m, d |-> d]

\* Date.UTC(year, month - 1, day)
DateUTC(y, m, d) == DaysFromCivil(y, m, d) * DayMs
\* the UTC calendar date of an instant: getUTCFullYear / getUTCMonth()+1 / getUTCDate
UTCDate(ts) == CivilFromDays(ts \div DayMs)
\* the local calendar date of an instant on a server tz minutes east of UTC
LocalDate(ts, tz) == CivilFromDays((ts + tz) \div DayMs)
\* new Date(year, month - 1, day) in local time
DateLocal(y, m, d, tz) == DaysFromCivil(y, m, d) * DayMs - tz
\* new Date(year, month, 0).getDate(): number of days of month m (1..12)
DaysInMonth(y, m) ==
    IF m = 12 THEN 31 ELSE DaysFromCivil(y, m + 1, 1) - DaysFromCivil(y, m, 1)

----------------------------------------------------------------------------
(* Sequence helpers *)

RECURSIVE FoldLeft(_, _, _)
\* Array.prototype.reduce((acc, x) => Op(acc, x), init)
FoldLeft(Op(_, _), acc, s) ==
    IF s = <<>> THEN acc ELSE FoldLeft(Op, Op(acc, Head(s)), Tail(s))

RECURSIVE InsertByTs(_, _)
InsertByTs(p, s) ==
    IF s = <<>> THEN <<p>>
    ELSE IF p.ts < Head(s).ts THEN <<p>> \o s
    ELSE <<Head(s)>> \o InsertByTs(p, Tail(s))

RECURSIVE SortByTs(_)
\* Array.prototype.sort((a, b) => a.ts - b.ts): stable, ascending timestamps
SortByTs(s) ==
    IF s = <<>> THEN <<>>
    ELSE InsertByTs(s[Len(s)], SortByTs(SubSeq(s, 1, Len(s) - 1)))

MapSeq(F(_), s) == [i \in 1..Len(s) |-> F(s[i])]

----------------------------------------------------------------------------
(* PuissanceService reducers *)

extractInstantaneousPower(data) ==
    IF Len(data) = 0 THEN Null
    ELSE OrElse(parseFloat(data[Len(data)].value), Null)

AddConsumption(sum, d) == Plus(sum, OrElse(parseFloat(d.value), Num(0)))

extractAggregatedConsumption(data) ==
    IF Len(data) = 0 THEN Null
    ELSE LET total == FoldLeft(AddConsumption, Num(0), data)
         IN IF Positive(total) THEN total ELSE Null

ChartPoint(d) == [ts |-> d.ts, value |-> OrElse(parseFloat(d.value), Num(0))]

extractAggregatedChartData(data) ==
    IF Len(data) = 0 THEN <<>> ELSE MapSeq(ChartPoint, data)

----------------------------------------------------------------------------
(* CurrentService reducers *)

extractSingleValue(data) ==
    IF Len(data) = 0 THEN Null
    ELSE LET value == parseFloat(data[1].value)
         IN IF IsNaN(value) THEN Null ELSE value

ParsedPoint(point) == [ts |-> point.ts, value |-> parseFloat(point.value)]

extractTimeseriesData(data) ==
    SelectSeq(MapSeq(ParsedPoint, data), LAMBDA point : ~IsNaN(point.value))

RECURSIVE MinTs(_)
MinTs(s) ==
    IF Len(s) = 1 THEN s[1].ts
    ELSE LET m == MinTs(Tail(s)) IN IF s[1].ts < m THEN s[1].ts ELSE m

\* the value dataByDay holds for a day: the last point of that local date
DayValue(monthData, y, m, day, tz) ==
    LET hits == SelectSeq(monthData,
                    LAMBDA p : LocalDate(p.ts, tz) = [y |-> y, m |-> m, d |-> day])
    IN IF hits = <<>> THEN Null ELSE hits[Len(hits)].value

fillMonthDays(monthData, now, tz) ==
    LET anchor == IF Len(monthData) = 0 THEN now ELSE MinTs(monthData)
        start  == LocalDate(anchor, tz)
        year   == start.y
        month  == start.m
    IN [day \in 1..DaysInMonth(year, month) |->
           [ts    |-> DateLocal(year, month, day, tz),
            date  |-> [d |-> day, m |-> month, y |-> year],
            value |-> DayValue(monthData, year, month, day, tz)]]

Years(dailyData) == {UTCDate(dailyData[i].ts).y : i \in 1..Len(dailyData)}

AddValue(sum, p) == Plus(sum, p.value)

\* one output point of aggregateToMonths: the bucket average, or null
MonthPoint(dailyData, year, month) ==
    LET bucket == SelectSeq(dailyData,
                      LAMBDA p : UTCDate(p.ts).y = year /\ UTCDate(p.ts).m = month)
        total  == FoldLeft(AddValue, Num(0), bucket)
    IN [ts    |-> DateUTC(year, month, 1),
        month |-> month,
        year  |-> year,
        value |-> IF bucket = <<>> THEN Null
                  ELSE Rat(total.n, total.d * Len(bucket))]

RECURSIVE MonthsOfYears(_, _)
\* the twelve months of every year of the set, years ascending
MonthsOfYears(dailyData, years) ==
    IF years = {} THEN <<>>
    ELSE LET y == CHOOSE v \in years : \A w \in years : v <= w
         IN [m \in 1..12 |-> MonthPoint(dailyData, y, m)]
            \o MonthsOfYears(dailyData, years \ {y})

\* a month fold that keeps only the months that have points
aggregateToMonthsBucketsOnly(dailyData, now) ==
    SelectSeq(SortByTs(MonthsOfYears(dailyData, Years(dailyData))),
              LAMBDA p : p.value # Null)

aggregateToMonths(dailyData, now) ==
    IF Len(dailyData) = 0
    THEN [m \in 1..12 |-> MonthPoint(<<>>, UTCDate(now).y, m)]
    ELSE SortByTs(MonthsOfYears(dailyData, Years(dailyData)))

----------------------------------------------------------------------------
(* Query-string parsing of the routes.  A query parameter is a string, a
   sequence of characters; an absent parameter is the empty string (both are
   falsy in the handlers' checks). *)

DigitValue ==
    [c \in {"0", "1", "2", "3", "4", "5", "6", "7", "8", "9"} |->
        CASE c = "0" -> 0 [] c = "1" -> 1 [] c = "2" -> 2 [] c = "3" -> 3
          [] c = "4" -> 4 [] c = "5" -> 5 [] c = "6" -> 6 [] c = "7" -> 7
          [] c = "8" -> 8 [] c = "9" -> 9]

IsDigit(c) == c \in DOMAIN DigitValue

RECURSIVE LeadingDigits(_)
LeadingDigits(s) ==
    IF s = <<>> \/ ~IsDigit(Head(s)) THEN <<>>
    ELSE <<Head(s)>> \o LeadingDigits(Tail(s))

AppendDigit(acc, c) == acc * 10 + DigitValue[c]

\* parseInt(String(s), 10): optional sign, then the leading decimal digits
parseInt(s) ==
    LET neg    == s # <<>> /\ Head(s) = "-"
        digits == LeadingDigits(IF neg THEN Tail(s) ELSE s)
        n      == FoldLeft(AppendDigit, 0, digits)
    IN IF digits = <<>> THEN NaN ELSE Num(IF neg THEN -n ELSE n)

RECURSIVE SplitComma(_, _)
\* String.prototype.split(','); cur is the piece being read
SplitComma(s, cur) ==
    IF s = <<>> THEN <<cur>>
    ELSE IF Head(s) = "," THEN <<cur>> \o SplitComma(Tail(s), <<>>)
    ELSE SplitComma(Tail(s), Append(cur, Head(s)))

RECURSIVE TrimLeft(_)
TrimLeft(s) == IF s # <<>> /\ Head(s) = " " THEN TrimLeft(Tail(s)) ELSE s

RECURSIVE TrimRight(_)
TrimRight(s) ==
    IF s # <<>> /\ s[Len(s)] = " " THEN TrimRight(SubSeq(s, 1, Len(s) - 1)) ELSE s

Trim(s) == TrimRight(TrimLeft(s))

\* String(keys).split(',').map(k => k.trim()).filter(k => k.length > 0)
ParseKeys(keys) ==
    SelectSeq(MapSeq(Trim, SplitComma(keys, <<>>)), LAMBDA k : Len(k) > 0)

\* String.prototype.toUpperCase on the aggregation / order words
toUpperCase(w) ==
    CASE w = "sum" -> "SUM" [] w = "asc" -> "ASC" [] OTHER -> w

validAgg == {"NONE", "AVG", "MIN", "MAX", "SUM"}
validOrder == {"ASC", "DESC"}

----------------------------------------------------------------------------
(* Requests and the upstream they run against *)

Routes == {"puissance", "current", "timeseries", "kpis", "entityTimeseries"}

\* the routes that pass their query through to getTimeseries:
\* GET /:deviceUUID/timeseries and GET /timeseries
PassThroughRoutes == {"timeseries", "entityTimeseries"}

\* req.query of the view endpoints (their only parameter, debug, is not modelled)
NoQuery ==
    [keys |-> <<>>, startTs |-> <<>>, endTs |-> <<>>, interval |-> <<>>,
     limit |-> <<>>, agg |-> "", orderBy |-> ""]

KeysInputs == { <<>>, <<"k">>, <<",", " ">>, <<"k", ",", " ", "j">> }
TsInputs == { <<>>, <<"a">>, <<"5">>, <<"9">> }
IntervalInputs == { <<>>, <<"0">>, <<"-", "1">>, <<"7">> }
LimitInputs == { <<>>, <<"a">>, <<"3">> }
AggInputs == {"", "sum", "MEDIAN"}
OrderInputs == {"", "DESC", "up"}

Queries(r) ==
    IF r \in PassThroughRoutes
    THEN [keys : KeysInputs, startTs : TsInputs, endTs : TsInputs,
          interval : IntervalInputs, limit : LimitInputs,
          agg : AggInputs, orderBy : OrderInputs]
    ELSE IF r = "kpis"
    THEN [keys : {<<>>}, startTs : TsInputs, endTs : TsInputs,
          interval : {<<>>}, limit : {<<>>}, agg : {""}, orderBy : {""}]
    ELSE {NoQuery}

Scenarios == 0..(NumScenarios - 1)

\* Date.now() of the request
NowOf(sc) ==
    DateUTC(2024, 1 + ((sc * 5) % 12), 1 + ((sc * 13) % 28))
        + ((sc * 7) % 24) * HourMs + 30 * MinuteMs

\* offset of the server's local time from UTC
TzOf(sc) == (sc % 3) * HourMs

\* the raw point arrays the upstream can answer with
PointPool(now) ==
    << <<>>,
       <<Point(now - 30 * MinuteMs, RawNum(5))>>,
       <<Point(now - DayMs, RawNum(0))>>,
       <<Point(now - 2 * DayMs, RawNum(3)), Point(now - 40 * DayMs, RawNum(4)),
         Point(now - 41 * DayMs, RawNum(2))>>,
       <<Point(now - 30 * MinuteMs, RawBad), Point(now - 90 * MinuteMs, RawNum(7))>> >>

\* what the upstream holds for sub-query i of a request in scenario sc
Upstream(sc, i) ==
    LET pool == PointPool(NowOf(sc)) IN pool[1 + ((sc * 3 + i) % Len(pool))]

\* number of getTimeseries calls a request fans out
SubQueryCount(r) ==
    CASE r = "puissance" -> 9
      [] r = "current" -> 10
      [] OTHER -> 1

MaxSubQueries == 10
SubIds == 1..MaxSubQueries

\* how a getTimeseries call can end: fulfilled, rejected with the upstream's
\* 404 ("Entity not found ..."), rejected with any other error.  The view
\* services never look at the message, so one rejection stands for both.
Outcomes(r) ==
    IF r \in {"timeseries", "kpis", "entityTimeseries"} THEN {"ok", "notfound", "error"}
    ELSE {"ok", "error"}

\* how deviceService.validateDevice can end
DeviceOutcomes == {"ok", "notfound", "error"}

----------------------------------------------------------------------------
(* Promises *)

Fulfilled(data) == [st |-> "fulfilled", data |-> data, err |-> "none"]
Rejected(err) == [st |-> "rejected", data |-> <<>>, err |-> err]

\* a fetchTelemetry that logs the rejection and throws it again
PuissanceFetchTelemetryRethrow(outcome, data) ==
    IF outcome = "ok" THEN Fulfilled(data) ELSE Rejected(outcome)

\* PuissanceService.fetchTelemetry: a rejection is caught and becomes an
\* empty array for every key
PuissanceFetchTelemetry(outcome, data) ==
    IF outcome = "ok" THEN Fulfilled(data) ELSE Fulfilled(<<>>)

\* CurrentService.fetchTelemetry: a rejection is logged and thrown again
CurrentFetchTelemetry(outcome, data) ==
    IF outcome = "ok" THEN Fulfilled(data) ELSE Rejected(outcome)

\* the routes await telemetryService.getTimeseries directly
RouteGetTimeseries(outcome, data) ==
    IF outcome = "ok" THEN Fulfilled(data) ELSE Rejected(outcome)

fetchTelemetry(r, outcome, data) ==
    CASE r = "puissance" -> PuissanceFetchTelemetry(outcome, data)
      [] r = "current" -> CurrentFetchTelemetry(outcome, data)
      [] OTHER -> RouteGetTimeseries(outcome, data)

----------------------------------------------------------------------------
(* Responses *)

NoResponse ==
    [sent |-> FALSE, status |-> 0, success |-> FALSE, error |-> "none", data |-> <<>>]

\* res.status(status).json({success, error?, ...data})
Response(status, success, error, data) ==
    [sent |-> TRUE, status |-> status, success |-> success, error |-> error,
     data |-> data]

\* the data block of a successful getPuissanceKPIs
PuissanceData(r) ==
    [instantaneousPower |-> extractInstantaneousPower(r[1]),
     consumedThisHour   |-> extractAggregatedConsumption(r[2]),
     consumedToday      |-> extractAggregatedConsumption(r[3]),
     consumedYesterday  |-> extractAggregatedConsumption(r[4]),
     consumedThisMonth  |-> extractAggregatedConsumption(r[5]),
     consumedLastMonth  |-> extractAggregatedConsumption(r[6]),
     hourlyData         |-> extractAggregatedChartData(r[7]),
     dailyData          |-> extractAggregatedChartData(r[8]),
     monthlyData        |-> extractAggregatedChartData(r[9])]

\* the data block getPuissanceKPIs returns from its catch
PuissanceEmptyData ==
    [instantaneousPower |-> Null, consumedThisHour |-> Null,
     consumedToday |-> Null, consumedYesterday |-> Null,
     consumedThisMonth |-> Null, consumedLastMonth |-> Null,
     hourlyData |-> <<>>, dailyData |-> <<>>, monthlyData |-> <<>>]

\* the data block of a successful getCurrentKPIs
CurrentData(r, now, tz) ==
    [instantaneousCurrent |-> extractSingleValue(r[1]),
     lastHourMin          |-> extractSingleValue(r[2]),
     lastHourAverage      |-> extractSingleValue(r[3]),
     lastHourMax          |-> extractSingleValue(r[4]),
     todayAverage         |-> extractSingleValue(r[5]),
     widgetData           |-> SortByTs(extractTimeseriesData(r[6])),
     hourlyData           |-> SortByTs(extractTimeseriesData(r[7])),
     dailyWeekData        |-> SortByTs(extractTimeseriesData(r[8])),
     dailyMonthData       |-> fillMonthDays(SortByTs(extractTimeseriesData(r[9])), now, tz),
     dailyYearData        |-> aggregateToMonths(extractTimeseriesData(r[10]), now)]

\* the catch block of the /timeseries and /kpis routes:
\* 404 when the message contains 'not found', 502 otherwise
RouteCatch(err) ==
    IF err = "notfound" THEN Response(404, FALSE, "not found", <<>>)
    ELSE Response(502, FALSE, "upstream", <<>>)

\* the catch block of the /puissance and /current routes
ViewRouteCatch(err) ==
    Response(502, FALSE, IF err = "notfound" THEN "not found" ELSE "upstream", <<>>)

\* the catch block of GET /timeseries: 502 with the error's message
EntityRouteCatch(err) ==
    Response(502, FALSE, IF err = "notfound" THEN "not found" ELSE "upstream", <<>>)

----------------------------------------------------------------------------
(* Parameter validation of the /timeseries and /kpis routes *)

\* the check made before anything else: required parameters present
MissingRequired(r, q) ==
    CASE r \in PassThroughRoutes -> q.keys = <<>> \/ q.startTs = <<>> \/ q.endTs = <<>>
      [] r = "kpis" -> q.startTs = <<>> \/ q.endTs = <<>>
      [] OTHER -> FALSE

\* the checks two numeric optional parameters get: value && (isNaN(value) || value < 1)
RejectsOptionalNumber(s) ==
    LET value == IF s = <<>> THEN NaN ELSE parseInt(s)
    IN Truthy(value) /\ value.n < 1

\* an optional numeric parameter as the handler passes it to getTimeseries:
\* interval ? parseInt(String(interval), 10) : undefined
OptionalNumber(s) == IF s = <<>> THEN Undefined ELSE parseInt(s)

\* the checks made once the device has been resolved (GET /timeseries, which
\* resolves no device, makes them first); "ok" or the error sent
ValidateAfterDevice(r, q) ==
    LET startTimestamp == parseInt(q.startTs)
        endTimestamp   == parseInt(q.endTs)
    IN CASE IsNaN(startTimestamp) \/ IsNaN(endTimestamp) -> "Invalid timestamp format"
         [] startTimestamp.n >= endTimestamp.n -> "startTs must be less than endTs"
         [] r = "kpis" -> "ok"
         [] Len(ParseKeys(q.keys)) = 0 -> "At least one key must be provided"
         [] RejectsOptionalNumber(q.interval) -> "Interval must be a positive number"
         [] q.agg # "" /\ toUpperCase(q.agg) \notin validAgg -> "Invalid aggregation function"
         [] q.orderBy # "" /\ toUpperCase(q.orderBy) \notin validOrder -> "Invalid orderBy"
         [] RejectsOptionalNumber(q.limit) -> "Limit must be a positive number"
         [] OTHER -> "ok"

----------------------------------------------------------------------------
(* One request through a route *)

\* what a handler answers when its try block throws err
HandlerCatch(r, err) ==
    CASE r = "puissance" -> Response(200, FALSE, "none", PuissanceEmptyData)
      [] r = "current" -> ViewRouteCatch(err)
      [] r = "entityTimeseries" -> EntityRouteCatch(err)
      [] OTHER -> RouteCatch(err)

\* what a handler answers once every sub-query promise is fulfilled
HandlerSuccess(r, sc, results) ==
    CASE r = "puissance" -> Response(200, TRUE, "none", PuissanceData(results))
      [] r = "current" ->
            Response(200, TRUE, "none", CurrentData(results, NowOf(sc), TzOf(sc)))
      [] r \in PassThroughRoutes -> Response(200, TRUE, "none", results[1])
      [] OTHER -> Response(200, TRUE, "none", [dataPointsProcessed |-> Len(results[1])])

IdleCall ==
    [kind |-> "none", pc |-> "idle", retryCount |-> 0, requests |-> 0,
     refreshes |-> 0, last |-> "none", result |-> "none"]

RetryIdle ==
    /\ calls = [c \in 1..MaxCalls |-> IdleCall]
    /\ tokenStale = FALSE
    /\ refreshLog = 0

ViewIdle ==
    /\ route = "none"
    /\ query = NoQuery
    /\ scenario = 0
    /\ pc = "idle"
    /\ device = "unknown"
    /\ tsCall = [i \in SubIds |-> "none"]
    /\ sub = [i \in SubIds |-> "none"]
    /\ outbound = [device |-> 0, telemetry |-> 0]
    /\ resp = NoResponse

\* no function of RangeSpec / ReduceSpec has been applied
NoCalc == [op |-> "none", out |-> <<>>]

CalcIdle ==
    /\ clock = 0
    /\ zone = 0
    /\ fetched = <<>>
    /\ calc = NoCalc

\* no thermal, relay, energy-history or global-meters call has been made
NoCall == [pc |-> "none"]

SvcIdle ==
    /\ thermal = NoCall
    /\ relay = NoCall
    /\ energy = NoCall
    /\ meters = NoCall

Init == ViewIdle /\ RetryIdle /\ CalcIdle /\ SvcIdle

\* the handler fans out its sub-queries
FanOut(n) ==
    /\ tsCall' = [i \in SubIds |-> IF i <= n THEN "pending" ELSE "none"]
    /\ sub' = [i \in SubIds |-> IF i <= n THEN "pending" ELSE "none"]
    /\ outbound' = [outbound EXCEPT !.telemetry = @ + n]
    /\ pc' = "fanout"
    /\ UNCHANGED resp

\* the handler answers without calling the telemetry service
Answer(response) ==
    /\ resp' = response
    /\ pc' = "done"
    /\ UNCHANGED <<tsCall, sub, outbound>>

\* the request arrives: the handler runs up to its first await
ReceiveRequest(r, q, sc) ==
    /\ pc = "idle"
    /\ route' = r
    /\ query' = q
    /\ scenario' = sc
    /\ IF MissingRequired(r, q)
       THEN Answer(Response(400, FALSE, "Missing required parameters", <<>>))
       ELSE IF r = "entityTimeseries"
       THEN IF ValidateAfterDevice(r, q) # "ok"
            THEN Answer(Response(400, FALSE, ValidateAfterDevice(r, q), <<>>))
            ELSE FanOut(SubQueryCount(r))
       ELSE /\ pc' = "validateDevice"
            /\ outbound' = [outbound EXCEPT !.device = @ + 1]
            /\ UNCHANGED <<resp, tsCall, sub>>
    /\ UNCHANGED device
    /\ UNCHANGED retryVars
    /\ UNCHANGED calcVars
    /\ UNCHANGED svcVars

\* deviceService.validateDevice settles and the handler continues
DeviceSettles(o) ==
    /\ pc = "validateDevice"
    /\ device' = o
    /\ IF o # "ok"
       THEN Answer(HandlerCatch(route, o))
       ELSE IF route \in {"timeseries", "kpis"} /\ ValidateAfterDevice(route, query) # "ok"
       THEN Answer(Response(400, FALSE, ValidateAfterDevice(route, query), <<>>))
       ELSE FanOut(SubQueryCount(route))
    /\ UNCHANGED <<route, query, scenario>>
    /\ UNCHANGED retryVars
    /\ UNCHANGED calcVars
    /\ UNCHANGED svcVars

AllFulfilled(s, n) == \A j \in 1..n : s[j] = "fulfilled"

\* what the promise of sub-query i was fulfilled with
Result(r, sc, c, i) == fetchTelemetry(r, c[i], Upstream(sc, i)).data

\* the getTimeseries call of sub-query i settles; the join (Promise.all, or
\* the single await of the routes) resumes the handler at once when it
\* rejects or when it was the last one
SubQuerySettles(i, o) ==
    /\ tsCall[i] = "pending"
    /\ o \in Outcomes(route)
    /\ tsCall' = [tsCall EXCEPT ![i] = o]
    /\ LET settled == fetchTelemetry(route, o, Upstream(scenario, i))
           after   == [sub EXCEPT ![i] = settled.st]
       IN /\ sub' = after
          /\ IF pc = "fanout" /\ settled.st = "rejected"
             THEN /\ resp' = HandlerCatch(route, settled.err)
                  /\ pc' = "done"
             ELSE IF pc = "fanout" /\ AllFulfilled(after, SubQueryCount(route))
             THEN /\ resp' = HandlerSuccess(route, scenario,
                                  [j \in 1..SubQueryCount(route) |->
                                      Result(route, scenario, tsCall', j)])
                  /\ pc' = "done"
             ELSE UNCHANGED <<resp, pc>>
    /\ UNCHANGED <<route, query, scenario, device, outbound>>
    /\ UNCHANGED retryVars
    /\ UNCHANGED calcVars
    /\ UNCHANGED svcVars

Next ==
    \/ /\ pc = "idle"
       /\ \E r \in Routes : \E q \in Queries(r) : \E sc \in Scenarios :
              ReceiveRequest(r, q, sc)
    \/ \E o \in DeviceOutcomes : DeviceSettles(o)
    \/ \E i \in 1..SubQueryCount(route) : \E o \in Outcomes(route) :
           SubQuerySettles(i, o)

Spec == Init /\ [][Next]_vars

----------------------------------------------------------------------------
(* ThingsboardTelemetryService: getTimeseries and getLatestAttributes with
   their refresh-and-retry loop on 401 *)

\* a retry budget one larger than the service's
maxRetriesOffByOne == 3 + 1

maxRetries == 3

CallIds == 1..MaxCalls
CallKinds == {"timeseries", "attributes"}

\* what the upstream answers to a request: an HTTP status, or the request
\* itself throws (network error).  An expired token is answered with 401.
Answers == IF tokenStale THEN {"401", "throw"} ELSE {"200", "400", "404", "500", "throw"}

\* the call ends in failure: getTimeseriesWithRetry throws the error again,
\* getLatestAttributesWithRetry returns null
Failure(kind) == IF kind = "timeseries" THEN "rejected" ELSE "null"

\* a retry branch that forgets to compare retryCount with maxRetries
OnResponseUnbounded(status, retryCount) ==
    IF status = "200" THEN "return"
    ELSE IF status = "401" THEN "retry"
    ELSE "fail"

\* a retry branch taken on every status other than 200
OnResponseRetryAny(status, retryCount) ==
    IF status = "200" THEN "return"
    ELSE IF status # "throw" /\ retryCount < maxRetries THEN "retry"
    ELSE "fail"

\* the branch taken on a response: "return", "retry" or "fail"
OnResponse(status, retryCount) ==
    IF status = "200" THEN "return"
    ELSE IF status = "401" /\ retryCount < maxRetries THEN "retry"
    ELSE "fail"

\* getTimeseries / getLatestAttributes is called: the call awaits
\* authService.getAuthenticatedClient()
Invoke(c, kind) ==
    /\ calls[c].pc = "idle"
    /\ calls' = [calls EXCEPT ![c] = [@ EXCEPT !.kind = kind, !.pc = "auth"]]
    /\ UNCHANGED <<tokenStale, refreshLog>>
    /\ UNCHANGED viewVars
    /\ UNCHANGED calcVars
    /\ UNCHANGED svcVars

\* getAuthenticatedClient settles: the request is issued (client.get), or
\* the error is caught and the call fails
ClientSettles(c, ok) ==
    /\ calls[c].pc = "auth"
    /\ calls' = [calls EXCEPT ![c] =
                    IF ok THEN [@ EXCEPT !.pc = "request", !.requests = @ + 1]
                    ELSE [@ EXCEPT !.pc = "done", !.result = Failure(calls[c].kind)]]
    /\ UNCHANGED <<tokenStale, refreshLog>>
    /\ UNCHANGED viewVars
    /\ UNCHANGED calcVars
    /\ UNCHANGED svcVars

\* the upstream answers the request of call c
UpstreamAnswers(c, status) ==
    /\ calls[c].pc = "request"
    /\ status \in Answers
    /\ LET branch == OnResponse(status, calls[c].retryCount)
       IN calls' = [calls EXCEPT ![c] =
              CASE branch = "return" ->
                      [@ EXCEPT !.pc = "done", !.last = status, !.result = "fulfilled"]
                [] branch = "retry" ->
                      [@ EXCEPT !.pc = "delay", !.last = status]
                [] OTHER ->
                      [@ EXCEPT !.pc = "done", !.last = status,
                                !.result = Failure(calls[c].kind)]]
    /\ UNCHANGED <<tokenStale, refreshLog>>
    /\ UNCHANGED viewVars
    /\ UNCHANGED calcVars
    /\ UNCHANGED svcVars

\* delay(retryDelayMs) elapses: the call invokes authService.refreshToken()
DelayElapses(c) ==
    /\ calls[c].pc = "delay"
    /\ calls' = [calls EXCEPT ![c] = [@ EXCEPT !.pc = "refresh", !.refreshes = @ + 1]]
    /\ refreshLog' = refreshLog + 1
    /\ UNCHANGED tokenStale
    /\ UNCHANGED viewVars
    /\ UNCHANGED calcVars
    /\ UNCHANGED svcVars

\* refreshToken settles: on success the token is fresh and the call starts
\* over with retryCount + 1; when it throws, the call fails
RefreshSettles(c, ok) ==
    /\ calls[c].pc = "refresh"
    /\ IF ok
       THEN /\ calls' = [calls EXCEPT ![c] =
                            [@ EXCEPT !.pc = "auth", !.retryCount = @ + 1]]
            /\ tokenStale' = FALSE
       ELSE /\ calls' = [calls EXCEPT ![c] =
                            [@ EXCEPT !.pc = "done", !.result = Failure(calls[c].kind)]]
            /\ UNCHANGED tokenStale
    /\ UNCHANGED refreshLog
    /\ UNCHANGED viewVars
    /\ UNCHANGED calcVars
    /\ UNCHANGED svcVars

\* the upstream stops accepting the current token
TokenExpires ==
    /\ ~tokenStale
    /\ \E c \in CallIds : calls[c].pc \notin {"idle", "done"}
    /\ tokenStale' = TRUE
    /\ UNCHANGED <<calls, refreshLog>>
    /\ UNCHANGED viewVars
    /\ UNCHANGED calcVars
    /\ UNCHANGED svcVars

RetryInit == ViewIdle /\ RetryIdle /\ CalcIdle /\ SvcIdle

RetryNext ==
    \/ \E c \in CallIds : \E kind \in CallKinds : Invoke(c, kind)
    \/ \E c \in CallIds : \E ok \in BOOLEAN : ClientSettles(c, ok)
    \/ \E c \in CallIds : \E status \in {"200", "400", "401", "404", "500", "throw"} :
           UpstreamAnswers(c, status)
    \/ \E c \in CallIds : DelayElapses(c)
    \/ \E c \in CallIds : \E ok \in BOOLEAN : RefreshSettles(c, ok)
    \/ TokenExpires

RetrySpec == RetryInit /\ [][RetryNext]_vars

----------------------------------------------------------------------------
(* The time windows of the sub-queries: calculateTimeRanges of the three view
   services and the day / month start of the KPI calculator *)

\* number of calendar years the clock of RangeSpec is drawn from
NumYears == 2

\* Date.prototype.setUTCHours(0, 0, 0, 0)
setUTCHoursStart(ts) == (ts \div DayMs) * DayMs
\* Date.prototype.setUTCHours(23, 59, 59, 999): the last instant of the UTC
\* day (one tick before the next day, at the model's resolution)
setUTCHoursEnd(ts) == (ts \div DayMs) * DayMs + DayMs - 1
\* Date.prototype.setHours(0, 0, 0, 0) on a server tz minutes east of UTC
setHoursStart(ts, tz) == ((ts + tz) \div DayMs) * DayMs - tz
getUTCDate(ts) == UTCDate(ts).d
\* getUTCMonth(): 0..11
getUTCMonth(ts) == UTCDate(ts).m - 1
\* Date.prototype.setUTCDate(d): day d of the date's month, d <= 0 or past the
\* month's end rolling into the neighbouring month; the time of day is kept
setUTCDate(ts, d) ==
    DateUTC(UTCDate(ts).y, UTCDate(ts).m, 1) + (d - 1) * DayMs + (ts % DayMs)
\* Date.prototype.setUTCMonth(m0): month m0 (0-based, any integer) of the
\* date's year, rolling over years; the day of month is kept and rolls into
\* the next month when the target month is shorter
setUTCMonth(ts, m0) ==
    DateUTC(UTCDate(ts).y + (m0 \div 12), (m0 % 12) + 1, 1)
        + (UTCDate(ts).d - 1) * DayMs + (ts % DayMs)

Window(start, end) == [start |-> start, end |-> end]

\* a last-month start taken 30 days before the start of this month
lastMonthStartThirtyDays(thisMonthStart) == thisMonthStart - 30 * DayMs

\* lastMonthStart of PuissanceService.calculateTimeRanges
lastMonthStart(thisMonthStart) ==
    setUTCMonth(thisMonthStart, getUTCMonth(thisMonthStart) - 1)

\* PuissanceService.calculateTimeRanges
PuissanceCalculateTimeRanges(now) ==
    LET todayStart        == setUTCHoursStart(now)
        yesterdayStart    == setUTCDate(todayStart, getUTCDate(todayStart) - 1)
        thisMonthStart    == setUTCHoursStart(setUTCDate(now, 1))
        lastMonthEnd      == setUTCHoursEnd(setUTCDate(thisMonthStart, 0))
        last12MonthsStart == setUTCMonth(thisMonthStart, getUTCMonth(thisMonthStart) - 12)
    IN [last1h       |-> Window(now - HourMs, now),
        last24h      |-> Window(now - DayMs, now),
        today        |-> Window(todayStart, now),
        yesterday    |-> Window(yesterdayStart, todayStart),
        thisMonth    |-> Window(thisMonthStart, now),
        lastMonth    |-> Window(lastMonthStart(thisMonthStart), lastMonthEnd),
        last12Months |-> Window(last12MonthsStart, now)]

\* CurrentService.calculateTimeRanges: today starts at the server's local midnight
CurrentCalculateTimeRanges(now, tz) ==
    [today       |-> Window(setHoursStart(now, tz), now),
     lastHour    |-> Window(now - HourMs, now),
     last24h     |-> Window(now - DayMs, now),
     last7days   |-> Window(now - 7 * DayMs, now),
     last30days  |-> Window(now - 30 * DayMs, now),
     last365days |-> Window(now - 365 * DayMs, now)]

\* GlobalMetersService.calculateTimeRanges
GlobalMetersCalculateTimeRanges(now) ==
    LET todayStart     == setUTCHoursStart(now)
        yesterdayStart == setUTCDate(todayStart, getUTCDate(todayStart) - 1)
        last7DaysStart == setUTCDate(todayStart, getUTCDate(todayStart) - 7)
        lastYearStart  == setUTCDate(todayStart, getUTCDate(todayStart) - 365)
    IN [last24h   |-> Window(now - DayMs, now),
        yesterday |-> Window(yesterdayStart, todayStart),
        today     |-> Window(todayStart, now),
        last7Days |-> Window(last7DaysStart, now),
        lastYear  |-> Window(lastYearStart, now)]

\* KPICalculatorService.getTodayStart: local midnight of the timestamp's day
getTodayStart(timestamp, tz) == setHoursStart(timestamp, tz)

\* KPICalculatorService.getMonthStart: local midnight of day 1 of the month
getMonthStart(timestamp, tz) ==
    DateLocal(LocalDate(timestamp, tz).y, LocalDate(timestamp, tz).m, 1, tz)

\* the windows the KPI calculator cuts its points with (d.ts >= start, up to now)
KpiCalculateTimeRanges(now, tz) ==
    [today     |-> Window(getTodayStart(now, tz), now),
     thisMonth |-> Window(getMonthStart(now, tz), now)]

\* the clocks of RangeSpec: every day of NumYears years from 2023 on (2024 is
\* a leap year), at midnight UTC, half an hour later and one minute before
\* the next midnight
RangeClocks ==
    {day * DayMs + t :
        day \in DaysFromCivil(2023, 1, 1)..(DaysFromCivil(2023 + NumYears, 1, 1) - 1),
        t \in {0, 30 * MinuteMs, DayMs - MinuteMs}}

\* server time zones: UTC, UTC+1, UTC-5
RangeZones == {0, HourMs, -5 * HourMs}

RangeInit ==
    /\ ViewIdle
    /\ RetryIdle
    /\ clock \in RangeClocks
    /\ zone \in RangeZones
    /\ fetched = <<>>
    /\ calc = NoCalc
    /\ SvcIdle

\* a service computes its windows for the clock, once per request
ApplyRanges(op, out) ==
    /\ calc = NoCalc
    /\ calc' = [op |-> op, out |-> out]
    /\ UNCHANGED <<clock, zone, fetched>>
    /\ UNCHANGED viewVars
    /\ UNCHANGED retryVars
    /\ UNCHANGED svcVars

PuissanceRanges == ApplyRanges("puissance", PuissanceCalculateTimeRanges(clock))
CurrentRanges == ApplyRanges("current", CurrentCalculateTimeRanges(clock, zone))
GlobalMetersRanges == ApplyRanges("globalMeters", GlobalMetersCalculateTimeRanges(clock))
KpiRanges == ApplyRanges("kpis", KpiCalculateTimeRanges(clock, zone))

RangeNext ==
    \/ PuissanceRanges
    \/ CurrentRanges
    \/ GlobalMetersRanges
    \/ KpiRanges

RangeSpec == RangeInit /\ [][RangeNext]_vars

----------------------------------------------------------------------------
(* The reducers of the view services applied to the raw points of one
   sub-query *)

\* longest raw point array of ReduceSpec
MaxPoints == 2

\* GlobalMetersService.extractInstantaneousPower
GlobalMetersExtractInstantaneousPower(data) ==
    IF Len(data) = 0 THEN Null
    ELSE LET value == parseFloat(data[Len(data)].value)
         IN IF ~IsNaN(value) THEN value ELSE Null

\* GlobalMetersService.extractAggregatedConsumption
GlobalMetersExtractAggregatedConsumption(data) ==
    IF Len(data) = 0 THEN Null
    ELSE LET total == FoldLeft(AddConsumption, Num(0), data)
         IN IF Positive(total) THEN total ELSE Null

\* GlobalMetersService.extractChartData
extractChartData(data) ==
    IF Len(data) = 0 THEN <<>> ELSE MapSeq(ChartPoint, data)

\* one output point of EnergyHistoryService.transformDataPoints
TransformedPoint(point) ==
    [ts |-> point.ts, value |-> OrElse(parseFloat(point.value), Num(0)),
     hasData |-> TRUE]

\* EnergyHistoryService.transformDataPoints
transformDataPoints(points) ==
    IF Len(points) = 0 THEN <<>> ELSE MapSeq(TransformedPoint, points)

\* what each service makes of the raw points of a sub-query
PuissanceReduced(data) ==
    [instantaneousPower |-> extractInstantaneousPower(data),
     consumed           |-> extractAggregatedConsumption(data),
     chart              |-> extractAggregatedChartData(data)]

\* resultPoints of the debug block's entries, by the kind of sub-query the raw
\* points answer: one of the five scalar ones, widgetData / hourlyData /
\* dailyWeekData, dailyMonthData, dailyYearData
CurrentResultPoints(data, now, tz) ==
    [scalar         |-> 1,
     series         |-> Len(SortByTs(extractTimeseriesData(data))),
     dailyMonthData |-> Len(fillMonthDays(SortByTs(extractTimeseriesData(data)), now, tz)),
     dailyYearData  |-> Len(aggregateToMonths(extractTimeseriesData(data), now))]

CurrentReduced(data, now, tz) ==
    [single         |-> extractSingleValue(data),
     series         |-> SortByTs(extractTimeseriesData(data)),
     dailyMonthData |-> fillMonthDays(SortByTs(extractTimeseriesData(data)), now, tz),
     dailyYearData  |-> aggregateToMonths(extractTimeseriesData(data), now),
     resultPoints   |-> CurrentResultPoints(data, now, tz)]

GlobalMetersReduced(data) ==
    [instantaneous |-> GlobalMetersExtractInstantaneousPower(data),
     consumed      |-> GlobalMetersExtractAggregatedConsumption(data),
     chart         |-> extractChartData(data)]

\* transformResults sorts the combined points, then transforms them
EnergyHistoryReduced(data) ==
    [chart |-> transformDataPoints(SortByTs(data))]

\* the clocks of ReduceSpec: mid-month in the small hours, the first half
\* hour of a year, the last hour of a 31-day month
ReduceClocks ==
    {DateUTC(2024, 3, 15) + 2 * HourMs + 30 * MinuteMs,
     DateUTC(2024, 1, 1) + 30 * MinuteMs,
     DateUTC(2024, 5, 31) + 23 * HourMs}

ReduceZones == {0, HourMs}

\* the timestamps of the raw points: the first two hour buckets of today, and
\* daily buckets 1, 20, 29 and 300 days before now
PointTimes(now) ==
    {setUTCHoursStart(now), setUTCHoursStart(now) + HourMs,
     now - DayMs, now - 20 * DayMs, now - 29 * DayMs, now - 300 * DayMs}

\* the values of the raw points: numbers (zero among them) and a malformed one
PointValues == {RawNum(0), RawNum(10), RawNum(20), RawBad}

\* the arrays of n raw points with distinct timestamps, in every order
PointArrays(now, n) ==
    {s \in [1..n -> {Point(ts, v) : ts \in PointTimes(now), v \in PointValues}] :
        \A i \in 1..n : \A j \in 1..n : i # j => s[i].ts # s[j].ts}

ReduceInit ==
    /\ ViewIdle
    /\ RetryIdle
    /\ clock \in ReduceClocks
    /\ zone \in ReduceZones
    /\ fetched \in UNION {PointArrays(clock, n) : n \in 0..MaxPoints}
    /\ calc = NoCalc
    /\ SvcIdle

\* a service reduces the raw points, once per request
ApplyReduce(op, out) ==
    /\ calc = NoCalc
    /\ calc' = [op |-> op, out |-> out]
    /\ UNCHANGED <<clock, zone, fetched>>
    /\ UNCHANGED viewVars
    /\ UNCHANGED retryVars
    /\ UNCHANGED svcVars

PuissanceReduce == ApplyReduce("puissance", PuissanceReduced(fetched))
CurrentReduce == ApplyReduce("current", CurrentReduced(fetched, clock, zone))
GlobalMetersReduce == ApplyReduce("globalMeters", GlobalMetersReduced(fetched))
EnergyHistoryReduce == ApplyReduce("energyHistory", EnergyHistoryReduced(fetched))

ReduceNext ==
    \/ PuissanceReduce
    \/ CurrentReduce
    \/ GlobalMetersReduce
    \/ EnergyHistoryReduce

ReduceSpec == ReduceInit /\ [][ReduceNext]_vars

----------------------------------------------------------------------------
(* ThermalService.getThermalManagementData: the device list is filtered for
   temperature sensors, and one task per sensor fetches its telemetry and
   then its attributes; the tasks run concurrently and are joined with
   Promise.all.  (ThermalSpec) *)

\* most devices deviceService.getDevices() returns
NumSensors == 2

\* null in a field that holds a string or a boolean otherwise
NullStr == "null"

Device(uuid, name) == [deviceUUID |-> uuid, name |-> name]
\* device names: temperature sensors and their controllers
DeviceNames == {"t_sensor", "Controller"}
\* device.name && device.name.toLowerCase().includes('t_sensor')
IsTemperatureSensor(d) == d.name = "t_sensor"
\* the device lists of the tenant; a device's UUID is its position
DeviceLists ==
    UNION {{[i \in 1..n |-> Device(i, names[i])] : names \in [1..n -> DeviceNames]} :
           n \in 0..NumSensors}

\* what getTimeseries answers for the five telemetry keys: a rejection, or an
\* object holding an array per key that has data (<<>> stands for no key)
TelemetryResult(temperature, humidity, dewPoint, raw, time) ==
    [rejected |-> FALSE, Temperature |-> temperature, Humidity |-> humidity,
     DewPoint |-> dewPoint, RawSht3xData |-> raw, Time |-> time]
TelemetryRejected == [TelemetryResult(<<>>, <<>>, <<>>, <<>>, <<>>) EXCEPT !.rejected = TRUE]
TelemetryEmpty == TelemetryResult(<<>>, <<>>, <<>>, <<>>, <<>>)
\* the latest reading of sensor u, taken at minute 1000 + u
TelemetryFull(u) ==
    TelemetryResult(<<Point(1000 + u, RawNum(20 + u))>>, <<Point(1000 + u, RawNum(40))>>,
                    <<Point(1000 + u, RawBad)>>, <<Point(1000 + u, "{}")>>, <<>>)
TelemetryAnswers(u) == {TelemetryRejected, TelemetryEmpty, TelemetryFull(u)}

\* what getLatestAttributes answers: null (404 or any failure), or an object
\* holding the attributes that are set ("" stands for an attribute not set)
AttributesResult(active, relayName, controller) ==
    [null |-> FALSE, active |-> active, powerStatus |-> "false", displayName |-> "Zone",
     hideAutoMode |-> "", delay |-> RawNum(5), minTemp |-> RawNum(18),
     maxTemp |-> RawBad, mode |-> "auto", relay |-> relayName,
     controllerUUID |-> controller]
AttributesNull == [AttributesResult("", "", "") EXCEPT !.null = TRUE]
AttributeAnswers == {AttributesNull, AttributesResult("true", "relay1", "Controller")}

\* the entry fetchSensorTelemetry / fetchSensorMetadata pushes to debugInfo
DebugEntry(deviceUUID, keys, resultFound) ==
    [deviceUUID |-> deviceUUID, keys |-> keys, resultFound |-> resultFound]

extractLatestNumericValue(result, key) ==
    IF result[key] = <<>> THEN Null
    ELSE LET num == parseFloat(result[key][1].value) IN IF IsNaN(num) THEN Null ELSE num

\* value?.toString() || null
extractLatestStringValue(result, key) ==
    IF result[key] = <<>> THEN NullStr
    ELSE IF result[key][1].value = "" THEN NullStr ELSE result[key][1].value

NullTelemetry ==
    [temperature |-> Null, humidity |-> Null, dewPoint |-> Null, rawData |-> NullStr,
     timestamp |-> Null, lastUpdate |-> Null]

\* fetchSensorTelemetry: the entry pushed to debugInfo and the value returned.
\* An instant stands for its ISO string; the parsed raw data for its text.
fetchSensorTelemetry(deviceUUID, result) ==
    IF result.rejected
    THEN [pushed |-> DebugEntry(deviceUUID, "telemetry", FALSE), value |-> NullTelemetry]
    ELSE LET hasData == \E key \in {"Temperature", "Humidity", "DewPoint", "RawSht3xData", "Time"} :
                            result[key] # <<>>
             timeStr == IF result.Time = <<>> THEN Null ELSE Num(result.Time[1].value)
             fromTemperature == timeStr = Null /\ result.Temperature # <<>>
             lastUpdate == IF fromTemperature THEN Num(result.Temperature[1].ts) ELSE timeStr
         IN [pushed |-> DebugEntry(deviceUUID, "telemetry", hasData),
             value |-> [temperature |-> extractLatestNumericValue(result, "Temperature"),
                        humidity |-> extractLatestNumericValue(result, "Humidity"),
                        dewPoint |-> extractLatestNumericValue(result, "DewPoint"),
                        rawData |-> extractLatestStringValue(result, "RawSht3xData"),
                        timestamp |-> IF Truthy(lastUpdate) THEN lastUpdate ELSE timeStr,
                        lastUpdate |-> lastUpdate]]

\* parseBoolean of an attribute value
parseBoolean(value) ==
    IF value = "true" THEN "true" ELSE IF value = "false" THEN "false" ELSE NullStr
\* parseNumber of an attribute value
parseNumber(value) ==
    LET num == parseFloat(value) IN IF IsNaN(num) THEN Null ELSE num
\* attributes?.[key]?.toString() || null
AttributeString(value) == IF value = "" THEN NullStr ELSE value

NullMetadata ==
    [active |-> NullStr, powerStatus |-> NullStr, displayName |-> NullStr,
     hideAutoMode |-> NullStr, delay |-> Null, minTemp |-> Null, maxTemp |-> Null,
     mode |-> NullStr, relay |-> NullStr, controllerUUID |-> NullStr]

\* fetchSensorMetadata: the entry pushed to debugInfo and the value returned
fetchSensorMetadata(deviceUUID, attributes) ==
    IF attributes.null
    THEN [pushed |-> DebugEntry(deviceUUID, "metadata", FALSE), value |-> NullMetadata]
    ELSE [pushed |-> DebugEntry(deviceUUID, "metadata", TRUE),
          value |-> [active |-> parseBoolean(attributes.active),
                     powerStatus |-> parseBoolean(attributes.powerStatus),
                     displayName |-> AttributeString(attributes.displayName),
                     hideAutoMode |-> parseBoolean(attributes.hideAutoMode),
                     delay |-> parseNumber(attributes.delay),
                     minTemp |-> parseNumber(attributes.minTemp),
                     maxTemp |-> parseNumber(attributes.maxTemp),
                     mode |-> AttributeString(attributes.mode),
                     relay |-> AttributeString(attributes.relay),
                     controllerUUID |-> AttributeString(attributes.controllerUUID)]]

\* the sensor's entry of the response: device info, metadata, telemetry
SensorDataNullsTogether(sensor, metadataData, telemetryData) ==
    [deviceUUID |-> sensor.deviceUUID, name |-> sensor.name,
     metadata |-> IF telemetryData = NullTelemetry THEN NullMetadata ELSE metadataData,
     telemetry |-> telemetryData]

SensorData(sensor, metadataData, telemetryData) ==
    [deviceUUID |-> sensor.deviceUUID, name |-> sensor.name,
     metadata |-> metadataData, telemetry |-> telemetryData]

\* calculateSummary: the counts (the temperature statistics are left out)
calculateSummary(sensors) ==
    [totalSensors |-> Len(sensors),
     activeSensors |-> Cardinality({k \in 1..Len(sensors) : sensors[k].metadata.active = "true"})]

\* the response; debug holds the requests array when the block is present
ThermalResponse(sensors, debug, debugInfo) ==
    [threw |-> FALSE, success |-> TRUE, sensors |-> sensors,
     summary |-> calculateSummary(sensors), sensorCount |-> Len(sensors),
     debug |-> IF debug THEN <<debugInfo>> ELSE <<>>]
\* no temperature sensor: the early return, which never carries a debug block
ThermalEmptyResponse == ThermalResponse(<<>>, FALSE, <<>>)
\* the outer catch rethrows
ThermalThrown == [ThermalEmptyResponse EXCEPT !.threw = TRUE, !.success = FALSE]

temperatureSensors(allDevices) == SelectSeq(allDevices, IsTemperatureSensor)

\* the upstream's answers for the devices: one per temperature sensor
TelemetryOf(devices) ==
    {f \in [1..Len(devices) -> UNION {TelemetryAnswers(u) : u \in 1..Len(devices)}] :
        \A u \in 1..Len(devices) :
            f[u] \in (IF IsTemperatureSensor(devices[u]) THEN TelemetryAnswers(u)
                      ELSE {TelemetryEmpty})}
AttributesOf(devices) ==
    {f \in [1..Len(devices) -> AttributeAnswers] :
        \A u \in 1..Len(devices) : IsTemperatureSensor(devices[u]) \/ f[u] = AttributesNull}

\* a request that has called deviceService.getDevices()
ThermalRequest(debug, outcome, devices, telemetry, attributes) ==
    [pc |-> "getDevices", debug |-> debug, devicesOutcome |-> outcome,
     allDevices |-> devices, telemetry |-> telemetry, attributes |-> attributes,
     sensors |-> <<>>, task |-> <<>>, telemetryData |-> <<>>, sensorsData |-> <<>>,
     debugInfo |-> <<>>, resp |-> <<>>]

ThermalInit ==
    /\ ViewIdle
    /\ RetryIdle
    /\ CalcIdle
    /\ relay = NoCall
    /\ energy = NoCall
    /\ meters = NoCall
    /\ \E debug \in BOOLEAN, outcome \in {"fulfilled", "rejected"}, devices \in DeviceLists :
        \E telemetry \in TelemetryOf(devices), attributes \in AttributesOf(devices) :
            thermal = ThermalRequest(debug, outcome, devices, telemetry, attributes)

ThermalStep(next) ==
    /\ thermal' = next
    /\ UNCHANGED <<relay, energy, meters>>
    /\ UNCHANGED viewVars
    /\ UNCHANGED retryVars
    /\ UNCHANGED calcVars

\* getDevices rejects: the outer catch rethrows
GetDevicesRejects ==
    /\ thermal.pc = "getDevices"
    /\ thermal.devicesOutcome = "rejected"
    /\ ThermalStep([thermal EXCEPT !.pc = "done", !.resp = <<ThermalThrown>>])

\* getDevices fulfils: early return without sensors, else one task per sensor,
\* each of which calls fetchSensorTelemetry at once
GetDevicesFulfils ==
    /\ thermal.pc = "getDevices"
    /\ thermal.devicesOutcome = "fulfilled"
    /\ LET sensors == temperatureSensors(thermal.allDevices)
       IN IF sensors = <<>>
          THEN ThermalStep([thermal EXCEPT !.pc = "done", !.resp = <<ThermalEmptyResponse>>])
          ELSE ThermalStep([thermal EXCEPT
                   !.pc = "fanout",
                   !.sensors = sensors,
                   !.task = [k \in 1..Len(sensors) |-> "telemetry"],
                   !.telemetryData = [k \in 1..Len(sensors) |-> NullTelemetry],
                   !.sensorsData = [k \in 1..Len(sensors) |->
                                       SensorData(sensors[k], NullMetadata, NullTelemetry)]])

\* the getTimeseries call of task k settles: fetchSensorTelemetry pushes its
\* debug entry and returns, and the task calls fetchSensorMetadata
TelemetrySettles(k) ==
    /\ thermal.pc = "fanout"
    /\ k \in 1..Len(thermal.sensors)
    /\ thermal.task[k] = "telemetry"
    /\ LET uuid == thermal.sensors[k].deviceUUID
           r == fetchSensorTelemetry(uuid, thermal.telemetry[uuid])
       IN ThermalStep([thermal EXCEPT
              !.task[k] = "metadata",
              !.telemetryData[k] = r.value,
              !.debugInfo = Append(@, r.pushed)])

\* the getLatestAttributes call of task k settles: fetchSensorMetadata pushes
\* its debug entry and returns, and the task resolves with the sensor's entry
MetadataSettles(k) ==
    /\ thermal.pc = "fanout"
    /\ k \in 1..Len(thermal.sensors)
    /\ thermal.task[k] = "metadata"
    /\ LET uuid == thermal.sensors[k].deviceUUID
           r == fetchSensorMetadata(uuid, thermal.attributes[uuid])
       IN ThermalStep([thermal EXCEPT
              !.task[k] = "done",
              !.sensorsData[k] = SensorData(thermal.sensors[k], r.value, thermal.telemetryData[k]),
              !.debugInfo = Append(@, r.pushed)])

\* Promise.all resolves: summary and response
ThermalJoin ==
    /\ thermal.pc = "fanout"
    /\ \A k \in 1..Len(thermal.sensors) : thermal.task[k] = "done"
    /\ ThermalStep([thermal EXCEPT
           !.pc = "done",
           !.resp = <<ThermalResponse(thermal.sensorsData, thermal.debug, thermal.debugInfo)>>])

ThermalNext ==
    \/ GetDevicesRejects
    \/ GetDevicesFulfils
    \/ \E k \in 1..NumSensors : TelemetrySettles(k)
    \/ \E k \in 1..NumSensors : MetadataSettles(k)
    \/ ThermalJoin

ThermalSpec == ThermalInit /\ [][ThermalNext]_vars

----------------------------------------------------------------------------
(* KPICalculatorService.calculateKPIs applied to the telemetry points of a
   device (KpiSpec).  The KPIs computed from the accumulated-energy series
   by position or by rolling window are modelled; the averages over
   ActivePowerTotal and the month differences are left out. *)

\* most telemetry points handed to calculateKPIs
MaxKpiPoints == 3

\* x - y
Minus(x, y) ==
    IF x.t = "num" /\ y.t = "num" THEN Rat(x.n * y.d - y.n * x.d, x.d * y.d) ELSE NaN

TelemetryDataPoint(key, ts, value) == [key |-> key, ts |-> ts, value |-> value]

\* allData.filter((d) => d.key === key).sort((a, b) => a.ts - b.ts)
RECURSIVE FilterKey(_, _)
FilterKey(allData, key) ==
    IF allData = <<>> THEN <<>>
    ELSE IF Head(allData).key = key THEN <<Head(allData)>> \o FilterKey(Tail(allData), key)
    ELSE FilterKey(Tail(allData), key)
SeriesOfKey(allData, key) == SortByTs(FilterKey(allData, key))

\* the least index of a non-empty set of indices: Array.prototype.find
FirstIndex(S) == CHOOSE i \in S : \A j \in S : i <= j

calculateConsumedYesterdayNoFallback(accumulatedData, now) ==
    LET starts == {i \in 1..Len(accumulatedData) :
                      /\ accumulatedData[i].ts >= now - 2 * DayMs
                      /\ accumulatedData[i].ts <= now - DayMs}
        ends == {i \in 1..Len(accumulatedData) :
                      /\ accumulatedData[i].ts > now - DayMs
                      /\ accumulatedData[i].ts <= now}
    IN IF Len(accumulatedData) >= 2 /\ starts # {} /\ ends # {}
       THEN Minus(accumulatedData[FirstIndex(ends)].value,
                  accumulatedData[FirstIndex(starts)].value)
       ELSE Num(0)

calculateConsumedYesterday(accumulatedData, now) ==
    LET n == Len(accumulatedData)
        yesterdayStartMs == now - 2 * DayMs
        yesterdayEndMs == now - DayMs
        starts == {i \in 1..n : /\ accumulatedData[i].ts >= yesterdayStartMs
                                /\ accumulatedData[i].ts <= yesterdayEndMs}
        ends == {i \in 1..n : /\ accumulatedData[i].ts > yesterdayEndMs
                              /\ accumulatedData[i].ts <= now}
    IN IF n >= 2
       THEN IF starts # {} /\ ends # {}
            THEN Minus(accumulatedData[FirstIndex(ends)].value,
                       accumulatedData[FirstIndex(starts)].value)
            ELSE Minus(accumulatedData[n].value, accumulatedData[n - 1].value)
       ELSE Num(0)

calculateConsumedDayBefore(accumulatedData, now) ==
    LET n == Len(accumulatedData)
    IN IF n >= 3 THEN Minus(accumulatedData[n - 1].value, accumulatedData[n - 2].value)
       ELSE Num(0)

calculateKPIs(allData, now) ==
    LET activePowerData == SeriesOfKey(allData, "ActivePowerTotal")
        accumulatedData == SeriesOfKey(allData, "AccumulatedActiveEnergyDelivered")
    IN [instantaneousConsumption |->
            IF Len(activePowerData) > 0 THEN activePowerData[Len(activePowerData)].value
            ELSE Num(0),
        consumedYesterday |-> calculateConsumedYesterday(accumulatedData, now),
        consumedDayBeforeYesterday |-> calculateConsumedDayBefore(accumulatedData, now),
        timestamp |-> now]

\* Date.now(): the first, second, a middle and the last minute of 2024-03-15
KpiClocks == {DateUTC(2024, 3, 15) + t : t \in {0, MinuteMs, 12 * HourMs, DayMs - MinuteMs}}

\* instants of the points: the start of the day before yesterday, the start
\* and the last minute of yesterday, and the start of today
KpiPointTimes(now) ==
    LET todayStart == setUTCHoursStart(now)
    IN {todayStart - 2 * DayMs, todayStart - DayMs, todayStart - MinuteMs, todayStart}

\* meter readings: 100 and 142.15
KpiValues == {Num(100), Rat(14215, 100)}

KpiPointArrays(now, n) ==
    {s \in [1..n -> {TelemetryDataPoint(key, ts, v) :
                        key \in {"ActivePowerTotal", "AccumulatedActiveEnergyDelivered"},
                        ts \in KpiPointTimes(now), v \in KpiValues}] :
        \A i \in 1..n : \A j \in 1..n : i # j => s[i].ts # s[j].ts}

KpiInit ==
    /\ ViewIdle
    /\ RetryIdle
    /\ SvcIdle
    /\ clock \in KpiClocks
    /\ zone = 0
    /\ fetched \in UNION {KpiPointArrays(clock, n) : n \in 0..MaxKpiPoints}
    /\ calc = NoCalc

CalculateKPIs == ApplyReduce("calculateKPIs", calculateKPIs(fetched, clock))

KpiNext == CalculateKPIs

KpiSpec == KpiInit /\ [][KpiNext]_vars

----------------------------------------------------------------------------
(* The energy-history endpoints: the controller handlers getEnergyHistory
   (GET /energy-history?devices=...) and getDeviceEnergyHistory
   (GET /:deviceUUID/energy-history), and EnergyHistoryService.getEnergyHistory,
   which runs one sub-query per device and metric concurrently and joins them
   with Promise.all.  (EnergySpec) *)

\* most devices named in a request
MaxDevices == 2

\* req.query of the energy-history endpoints; an absent parameter is <<>>
\* (a metrics parameter that is present is not empty)
DeviceUUIDs == {<<c>> : c \in {d \in DOMAIN DigitValue : DigitValue[d] \in 1..MaxDevices}}
RECURSIVE DevicesParam(_)
\* the devices parameter naming devices 1..n: "1,2,...,n"
DevicesParam(n) ==
    IF n = 0 THEN <<>>
    ELSE IF n = 1 THEN <<"1">>
    ELSE DevicesParam(n - 1) \o <<",">> \o (CHOOSE u \in DeviceUUIDs : DigitValue[u[1]] = n)
DevicesInputs == {DevicesParam(n) : n \in 0..MaxDevices} \cup {<<",">>}
MetricsInputs == {<<>>, <<"energy">>, <<"energy", ",", "co2">>}
ResolutionInputs == {"", "hourly"}
HourInputs == {<<>>, <<"0">>, <<"1">>}
DebugInputs == {"", "true"}

EnergyQueries ==
    [devices : DevicesInputs, startDate : TsInputs, endDate : TsInputs,
     metrics : MetricsInputs, resolution : ResolutionInputs,
     hourFrom : HourInputs, hourTo : HourInputs, debug : DebugInputs]

\* METRIC_TELEMETRY_KEYS[metricType] || []
METRIC_TELEMETRY_KEYS(metricType) ==
    CASE metricType = <<"energy">> -> <<"ActiveEnergy", "AccumulatedActiveEnergyDelivered">>
      [] metricType = <<"co2">> -> <<"CO2Emissions", "CO2Intensity">>
      [] metricType = <<"cost">> -> <<"EnergyCost", "CostPerKWh">>
      [] metricType = <<"consumption">> ->
            <<"ActivePowerTotal", "deltaHourEnergyConsumtion", "deltaDayEnergyConsumtion">>
      [] OTHER -> <<>>

\* position of a metric among the known ones (0 for an unknown one)
MetricNumber(metricType) ==
    CASE metricType = <<"energy">> -> 1 [] metricType = <<"co2">> -> 2
      [] metricType = <<"cost">> -> 3 [] metricType = <<"consumption">> -> 4
      [] OTHER -> 0

\* what a handler decides before any upstream call: a 400 response, or the
\* query it hands to EnergyHistoryService.getEnergyHistory
EnergyBadRequest(message) == [status |-> 400, message |-> message, query |-> <<>>]
EnergyHistoryQuery(deviceUUIDList, startDate, endDate, metricTypes, resolution, hourFrom, hourTo) ==
    [status |-> 200, message |-> "",
     query |-> <<[deviceUUIDList |-> deviceUUIDList, startDate |-> startDate,
                  endDate |-> endDate, metricTypes |-> metricTypes,
                  resolution |-> resolution, hourFrom |-> hourFrom, hourTo |-> hourTo]>>]

\* (metricsQuery as string)?.split(',').map(m => m.trim()).filter(m => m) || ['consumption']
ParseMetrics(metricsQuery) ==
    IF metricsQuery = <<>> THEN << <<"consumption">> >> ELSE ParseKeys(metricsQuery)
\* (resolutionQuery as 'hourly' | 'daily') || 'daily'
ParseResolution(resolutionQuery) ==
    IF resolutionQuery = "" THEN "daily" ELSE resolutionQuery
\* hourQuery ? parseInt(hourQuery as string, 10) : undefined
ParseHour(hourQuery) == IF hourQuery = <<>> THEN Undefined ELSE parseInt(hourQuery)

\* handler of GET /energy-history, up to the call of the service
getEnergyHistory(q) ==
    LET deviceUUIDs == ParseKeys(q.devices)
        startDate == parseInt(q.startDate)
        endDate == parseInt(q.endDate)
    IN IF q.devices = <<>> \/ q.startDate = <<>> \/ q.endDate = <<>>
       THEN EnergyBadRequest("Missing required parameters: devices, startDate, endDate")
       ELSE IF IsNaN(startDate) \/ IsNaN(endDate)
       THEN EnergyBadRequest("Invalid startDate or endDate: must be Unix timestamp in milliseconds")
       ELSE IF Len(deviceUUIDs) = 0
       THEN EnergyBadRequest("At least one device UUID required")
       ELSE IF startDate.n >= endDate.n
       THEN EnergyBadRequest("startDate must be before endDate")
       ELSE EnergyHistoryQuery(deviceUUIDs, startDate, endDate, ParseMetrics(q.metrics),
                               ParseResolution(q.resolution), ParseHour(q.hourFrom),
                               ParseHour(q.hourTo))

\* handler of GET /:deviceUUID/energy-history, up to the call of the service
getDeviceEnergyHistory(deviceUUID, q) ==
    LET startDate == parseInt(q.startDate)
        endDate == parseInt(q.endDate)
    IN IF q.startDate = <<>> \/ q.endDate = <<>>
       THEN EnergyBadRequest("Missing required parameters: startDate, endDate")
       ELSE IF IsNaN(startDate) \/ IsNaN(endDate)
       THEN EnergyBadRequest("Invalid startDate or endDate: must be Unix timestamp in milliseconds")
       ELSE EnergyHistoryQuery(<<deviceUUID>>, startDate, endDate, ParseMetrics(q.metrics),
                               ParseResolution(q.resolution), ParseHour(q.hourFrom),
                               ParseHour(q.hourTo))

\* the handler of an endpoint
EnergyHandler(endpoint, deviceUUID, q) ==
    IF endpoint = "energy-history" THEN getEnergyHistory(q)
    ELSE getDeviceEnergyHistory(deviceUUID, q)

\* buildDataRequests: one request per device and metric, devices outermost
buildDataRequests(historyQuery) ==
    LET nm == Len(historyQuery.metricTypes)
    IN [i \in 1..(Len(historyQuery.deviceUUIDList) * nm) |->
            LET deviceUUID == historyQuery.deviceUUIDList[((i - 1) \div nm) + 1]
                metricType == historyQuery.metricTypes[((i - 1) % nm) + 1]
            IN [deviceUUID |-> deviceUUID, metricType |-> metricType,
                telemetryKeys |-> METRIC_TELEMETRY_KEYS(metricType),
                startDate |-> historyQuery.startDate, endDate |-> historyQuery.endDate]]

\* the raw points the upstream holds for a request: per telemetry key, two
\* readings of the first key (00:00 and 02:00 of 2024-03-15) and a malformed
\* one of the second (01:00), valued by device and metric
UpstreamSeries(req) ==
    LET base == DateUTC(2024, 3, 15)
        v == 10 * DigitValue[req.deviceUUID[1]] + MetricNumber(req.metricType)
    IN [k \in 1..Len(req.telemetryKeys) |->
            IF k = 1 THEN <<Point(base, RawNum(v)), Point(base + 2 * HourMs, RawNum(v + 1))>>
            ELSE IF k = 2 THEN <<Point(base + HourMs, RawBad)>>
            ELSE <<>>]

\* executeRequest: the result of getTimeseries, or an empty array per key when
\* the call is rejected.  A result holds the array of each telemetry key, in
\* the order of telemetryKeys.
executeRequest(req, outcome) ==
    IF outcome = "fulfilled" THEN UpstreamSeries(req)
    ELSE [k \in 1..Len(req.telemetryKeys) |-> <<>>]

RECURSIVE Concat(_)
\* combinedDataPoints.push(...keyDataPoints) over the telemetry keys
Concat(arrays) == IF arrays = <<>> THEN <<>> ELSE Head(arrays) \o Concat(Tail(arrays))

\* the series transformResults builds from one raw result
TransformedSeries(rawResult) == transformDataPoints(SortByTs(Concat(rawResult)))

\* the last index of a non-empty set of indices: a later write to
\* data[deviceUUID][metricType] replaces an earlier one
LastIndex(S) == CHOOSE i \in S : \A j \in S : j <= i

transformResultsFirstResult(historyQuery, results) ==
    [d \in {historyQuery.deviceUUIDList[i] : i \in 1..Len(historyQuery.deviceUUIDList)} |->
        [m \in {historyQuery.metricTypes[i] : i \in 1..Len(historyQuery.metricTypes)} |->
            TransformedSeries(results[1])]]

\* transformResults: data[deviceUUID][metricType] from results[resultIndex]
transformResults(historyQuery, results) ==
    LET requests == buildDataRequests(historyQuery)
    IN [d \in {historyQuery.deviceUUIDList[i] : i \in 1..Len(historyQuery.deviceUUIDList)} |->
          [m \in {historyQuery.metricTypes[i] : i \in 1..Len(historyQuery.metricTypes)} |->
              LET resultIndex == LastIndex({i \in 1..Len(requests) :
                                      requests[i].deviceUUID = d /\ requests[i].metricType = m})
              IN TransformedSeries(results[resultIndex])]]

\* Date.prototype.getHours on a server tz minutes east of UTC
getHours(ts, tz) == ((ts + tz) % DayMs) \div HourMs

\* filterByHourRange
filterByHourRange(data, hourFrom, hourTo, tz) ==
    [d \in DOMAIN data |->
        [m \in DOMAIN data[d] |->
            SelectSeq(data[d][m],
                      LAMBDA point : /\ getHours(point.ts, tz) >= hourFrom.n
                                     /\ getHours(point.ts, tz) <= hourTo.n)]]

\* the data block of the service's response
EnergyHistoryData(historyQuery, results, tz) ==
    LET transformedData == transformResults(historyQuery, results)
    IN IF historyQuery.hourFrom # Undefined \/ historyQuery.hourTo # Undefined
       THEN filterByHourRange(transformedData, OrElse(historyQuery.hourFrom, Num(0)),
                              OrElse(historyQuery.hourTo, Num(23)), tz)
       ELSE transformedData

\* debug.requests of the service's response
EnergyDebugRequests(historyQuery, results) ==
    LET requests == buildDataRequests(historyQuery)
    IN [i \in 1..Len(requests) |->
            [deviceUUID |-> requests[i].deviceUUID, metricType |-> requests[i].metricType,
             resultPoints |-> Len(Concat(results[i]))]]

\* the body res.json sends: the service's response, debug deleted unless
\* debug=true
EnergyResponse(historyQuery, results, debugQuery, tz) ==
    [status |-> 200, success |-> TRUE, message |-> "",
     data |-> <<EnergyHistoryData(historyQuery, results, tz)>>,
     meta |-> <<[deviceUUIDs |-> historyQuery.deviceUUIDList, metricTypes |-> historyQuery.metricTypes,
                 resolution |-> historyQuery.resolution, startDate |-> historyQuery.startDate,
                 endDate |-> historyQuery.endDate]>>,
     debug |-> IF debugQuery = "true" THEN <<EnergyDebugRequests(historyQuery, results)>> ELSE <<>>]

\* res.status(400).json(...)
EnergyErrorResponse(decision) ==
    [status |-> decision.status, success |-> FALSE, message |-> decision.message,
     data |-> <<>>, meta |-> <<>>, debug |-> <<>>]

\* a request that has reached its handler
EnergyRequest(endpoint, deviceUUID, q) ==
    [pc |-> "received", endpoint |-> endpoint, deviceUUID |-> deviceUUID, q |-> q,
     decision |-> <<>>, requests |-> <<>>, sub |-> <<>>, results |-> <<>>, resp |-> <<>>]

EnergyInit ==
    /\ ViewIdle
    /\ RetryIdle
    /\ clock = 0
    /\ zone \in {0, HourMs}
    /\ fetched = <<>>
    /\ calc = NoCalc
    /\ thermal = NoCall
    /\ relay = NoCall
    /\ meters = NoCall
    /\ \/ \E q \in EnergyQueries : energy = EnergyRequest("energy-history", <<>>, q)
       \/ \E deviceUUID \in DeviceUUIDs : \E q \in EnergyQueries :
            /\ q.devices = <<>>
            /\ energy = EnergyRequest("deviceEnergyHistory", deviceUUID, q)

EnergyStep(next) ==
    /\ energy' = next
    /\ UNCHANGED <<thermal, relay, meters>>
    /\ UNCHANGED viewVars
    /\ UNCHANGED retryVars
    /\ UNCHANGED calcVars

\* the handler parses and validates the query and answers 400 ...
EnergyRejects ==
    /\ energy.pc = "received"
    /\ LET decision == EnergyHandler(energy.endpoint, energy.deviceUUID, energy.q)
       IN /\ decision.status = 400
          /\ EnergyStep([energy EXCEPT !.pc = "done", !.decision = <<decision>>,
                                       !.resp = <<EnergyErrorResponse(decision)>>])

\* ... or calls the service, which starts every sub-query
EnergyFanOut ==
    /\ energy.pc = "received"
    /\ LET decision == EnergyHandler(energy.endpoint, energy.deviceUUID, energy.q)
       IN /\ decision.status = 200
          /\ LET allRequests == buildDataRequests(decision.query[1])
             IN EnergyStep([energy EXCEPT
                    !.pc = "fanout", !.decision = <<decision>>,
                    !.requests = allRequests,
                    !.sub = [i \in 1..Len(allRequests) |-> "pending"],
                    !.results = [i \in 1..Len(allRequests) |-> <<>>]])

\* the getTimeseries call of sub-query i settles and executeRequest returns
EnergySubSettles(i, outcome) ==
    /\ energy.pc = "fanout"
    /\ i \in 1..Len(energy.requests)
    /\ energy.sub[i] = "pending"
    /\ EnergyStep([energy EXCEPT !.sub[i] = outcome,
                                 !.results[i] = executeRequest(energy.requests[i], outcome)])

\* Promise.all resolves: transform, filter, respond
EnergyJoin ==
    /\ energy.pc = "fanout"
    /\ \A i \in 1..Len(energy.requests) : energy.sub[i] # "pending"
    /\ EnergyStep([energy EXCEPT
           !.pc = "done",
           !.resp = <<EnergyResponse(energy.decision[1].query[1], energy.results,
                                     energy.q.debug, zone)>>])

\* sub-queries of the largest request: every device, two metrics
MaxEnergyRequests == 2 * MaxDevices

EnergyNext ==
    \/ EnergyRejects
    \/ EnergyFanOut
    \/ \E i \in 1..MaxEnergyRequests : \E outcome \in {"fulfilled", "rejected"} :
          EnergySubSettles(i, outcome)
    \/ EnergyJoin

EnergySpec == EnergyInit /\ [][EnergyNext]_vars

----------------------------------------------------------------------------
(* GlobalMetersService.getGlobalMetersData: one task per requested device
   (validateDevice, then six telemetry fetches joined with Promise.all), the
   tasks joined with Promise.allSettled.  (MetersSpec) *)

\* most devices in a request
MaxMeters == 2

\* the six fetchTelemetry calls of getDeviceMetersData, in order
MeterQueries == 1..6

\* the requested lists: devices n, n - 1, ..., 1
MeterLists == {[i \in 1..n |-> n + 1 - i] : n \in 0..MaxMeters}

\* what fetchTelemetry k of a device returns: the upstream's points for its
\* key, or an empty array when getTimeseries is rejected
MeterTelemetry(deviceUUID, k, failed) ==
    IF k \in failed THEN <<>>
    ELSE <<Point(DateUTC(2024, 3, 15) + k * HourMs, RawNum(10 * deviceUUID + k))>>

\* the value getDeviceMetersData returns once its six fetches have resolved
GlobalMeterData(deviceUUID, failed) ==
    LET instantaneous ==
            GlobalMetersExtractInstantaneousPower(MeterTelemetry(deviceUUID, 1, failed))
    IN [deviceUUID |-> deviceUUID,
        status |-> IF instantaneous # Null THEN "online" ELSE "offline",
        instantaneous |-> instantaneous,
        today |-> GlobalMetersExtractAggregatedConsumption(MeterTelemetry(deviceUUID, 2, failed)),
        yesterday |-> GlobalMetersExtractAggregatedConsumption(MeterTelemetry(deviceUUID, 3, failed)),
        hourlyData |-> extractChartData(MeterTelemetry(deviceUUID, 4, failed)),
        monthlyData |-> extractChartData(MeterTelemetry(deviceUUID, 5, failed)),
        yearlyData |-> extractChartData(MeterTelemetry(deviceUUID, 6, failed))]

RECURSIVE successfulDataAllOrNothing(_)
successfulDataAllOrNothing(results) ==
    IF \E i \in 1..Len(results) : results[i] = <<>> THEN <<>>
    ELSE IF results = <<>> THEN <<>>
    ELSE Head(results) \o successfulDataAllOrNothing(Tail(results))

RECURSIVE successfulData(_)
\* the values of the fulfilled, non-null results, in order (a result is <<>>
\* for null, or holds the device's data)
successfulData(results) ==
    IF results = <<>> THEN <<>>
    ELSE Head(results) \o successfulData(Tail(results))

GlobalMetersResponse(data) ==
    [success |-> TRUE, data |-> data, count |-> Len(data)]

\* a call that has not started yet
MetersCall(deviceUUIDs) ==
    [pc |-> "called", deviceUUIDs |-> deviceUUIDs, task |-> <<>>, failed |-> <<>>,
     results |-> <<>>, resp |-> <<>>]

MetersInit ==
    /\ ViewIdle
    /\ RetryIdle
    /\ CalcIdle
    /\ thermal = NoCall
    /\ relay = NoCall
    /\ energy = NoCall
    /\ \E deviceUUIDs \in MeterLists : meters = MetersCall(deviceUUIDs)

MetersStep(next) ==
    /\ meters' = next
    /\ UNCHANGED <<thermal, relay, energy>>
    /\ UNCHANGED viewVars
    /\ UNCHANGED retryVars
    /\ UNCHANGED calcVars

\* getGlobalMetersData: the early return for an empty list, else one
\* getDeviceMetersData task per device, each calling validateDevice
MetersStart ==
    /\ meters.pc = "called"
    /\ IF meters.deviceUUIDs = <<>>
       THEN MetersStep([meters EXCEPT !.pc = "done", !.resp = <<GlobalMetersResponse(<<>>)>>])
       ELSE MetersStep([meters EXCEPT
                !.pc = "fanout",
                !.task = [i \in 1..Len(meters.deviceUUIDs) |-> "validateDevice"],
                !.failed = [i \in 1..Len(meters.deviceUUIDs) |-> {}],
                !.results = [i \in 1..Len(meters.deviceUUIDs) |-> <<>>]])

\* validateDevice of task i settles: the task goes on to its six fetches, or
\* its catch returns null
ValidateDeviceSettles(i, outcome) ==
    /\ meters.pc = "fanout"
    /\ i \in 1..Len(meters.deviceUUIDs)
    /\ meters.task[i] = "validateDevice"
    /\ MetersStep([meters EXCEPT
           !.task[i] = IF outcome = "ok" THEN "fetchTelemetry" ELSE "rejected"])

\* the six fetches of task i have resolved, those in failed with an empty
\* array, and the task returns the device's data
DeviceTelemetrySettles(i, failed) ==
    /\ meters.pc = "fanout"
    /\ i \in 1..Len(meters.deviceUUIDs)
    /\ meters.task[i] = "fetchTelemetry"
    /\ MetersStep([meters EXCEPT
           !.task[i] = "resolved",
           !.failed[i] = failed,
           !.results[i] = <<GlobalMeterData(meters.deviceUUIDs[i], failed)>>])

\* Promise.allSettled resolves: the non-null values are collected in order
MetersJoin ==
    /\ meters.pc = "fanout"
    /\ \A i \in 1..Len(meters.deviceUUIDs) : meters.task[i] \in {"rejected", "resolved"}
    /\ MetersStep([meters EXCEPT
           !.pc = "done",
           !.resp = <<GlobalMetersResponse(successfulData(meters.results))>>])

MetersNext ==
    \/ MetersStart
    \/ \E i \in 1..MaxMeters : \E outcome \in DeviceOutcomes : ValidateDeviceSettles(i, outcome)
    \/ \E i \in 1..MaxMeters : \E failed \in SUBSET MeterQueries : DeviceTelemetrySettles(i, failed)
    \/ MetersJoin

MetersSpec == MetersInit /\ [][MetersNext]_vars

----------------------------------------------------------------------------
(* ThermalService.controlRelay: the sensor device, its controllerUUID and
   relay attributes and the controller device are looked up in turn, and the
   controller's 'active' attribute is written.  (RelaySpec) *)

\* what getLatestAttributes can answer for the sensor: nothing, or attributes
\* with or without a relay and naming a controller, an unknown one, or none
RelayAttributeAnswers ==
    {AttributesNull} \cup
    {AttributesResult("true", relayName, controller) :
        relayName \in {"", "relay1"}, controller \in {"", "Controller", "Ghost"}}

\* allDevices.find(predicate): the first matching device, if any
FindDevice(allDevices, Matches(_)) ==
    LET found == SelectSeq(allDevices, Matches)
    IN IF found = <<>> THEN <<>> ELSE <<Head(found)>>

activeValueAlwaysOn(action) == TRUE

\* const activeValue = action === 'start'
activeValue(action) == action = "start"

\* the value controlRelay resolves with
RelayResult(success, message) == [threw |-> FALSE, success |-> success, message |-> message]

\* a call that has called deviceService.getDevices()
RelayCall(deviceUUID, action, outcome, devices, attributes, updateOutcome) ==
    [pc |-> "getDevices", deviceUUID |-> deviceUUID, action |-> action,
     devicesOutcome |-> outcome, allDevices |-> devices, attributes |-> attributes,
     updateOutcome |-> updateOutcome, metadata |-> NullMetadata, writes |-> <<>>,
     resp |-> <<>>]

RelayInit ==
    /\ ViewIdle
    /\ RetryIdle
    /\ CalcIdle
    /\ thermal = NoCall
    /\ energy = NoCall
    /\ meters = NoCall
    /\ \E deviceUUID \in 1..NumSensors, action \in {"start", "stop"},
          outcome \in {"fulfilled", "rejected"}, devices \in DeviceLists,
          attributes \in RelayAttributeAnswers, updateOutcome \in {"fulfilled", "rejected"} :
            relay = RelayCall(deviceUUID, action, outcome, devices, attributes, updateOutcome)

RelayStep(next) ==
    /\ relay' = next
    /\ UNCHANGED <<thermal, energy, meters>>
    /\ UNCHANGED viewVars
    /\ UNCHANGED retryVars
    /\ UNCHANGED calcVars

RelayReturns(success, message) ==
    RelayStep([relay EXCEPT !.pc = "done", !.resp = <<RelayResult(success, message)>>])

\* getDevices settles: a rejection is caught; an unknown device ends the
\* call; otherwise the sensor's attributes are fetched
RelayDevicesSettle ==
    /\ relay.pc = "getDevices"
    /\ IF relay.devicesOutcome = "rejected" THEN RelayReturns(FALSE, "error")
       ELSE IF FindDevice(relay.allDevices, LAMBDA d : d.deviceUUID = relay.deviceUUID) = <<>>
       THEN RelayReturns(FALSE, "Device not found")
       ELSE RelayStep([relay EXCEPT !.pc = "fetchSensorMetadata"])

\* fetchSensorMetadata resolves: without controllerUUID, relay or controller
\* device the call ends; otherwise updateAttributes is called on the controller
RelayMetadataSettles ==
    /\ relay.pc = "fetchSensorMetadata"
    /\ LET metadata == fetchSensorMetadata(relay.deviceUUID, relay.attributes).value
           controllerDevice ==
               FindDevice(relay.allDevices, LAMBDA d : d.name = metadata.controllerUUID)
       IN IF metadata.controllerUUID = NullStr
          THEN RelayReturns(FALSE, "No controller UUID found")
          ELSE IF metadata.relay = NullStr
          THEN RelayReturns(FALSE, "No relay assigned")
          ELSE IF controllerDevice = <<>>
          THEN RelayReturns(FALSE, "Controller device not found")
          ELSE RelayStep([relay EXCEPT
                   !.pc = "updateAttributes",
                   !.metadata = metadata,
                   !.writes = Append(@, [entityId |-> controllerDevice[1].deviceUUID,
                                         active |-> activeValue(relay.action)])])

\* updateAttributes settles: it resolves with the response data or
\* { success: true }, or it throws and the catch answers
RelayUpdateSettles ==
    /\ relay.pc = "updateAttributes"
    /\ IF relay.updateOutcome = "fulfilled"
       THEN RelayReturns(TRUE, "Relay command sent successfully")
       ELSE RelayReturns(FALSE, "error")

RelayNext ==
    \/ RelayDevicesSettle
    \/ RelayMetadataSettles
    \/ RelayUpdateSettles

RelaySpec == RelayInit /\ [][RelayNext]_vars

----------------------------------------------------------------------------
(* GET /thermal/chart-data and ThermalService.getTemperatureChartData: the
   route parses startTimestamp, the service aligns the end of a 24-hour
   window and queries the hourly averages of every sensor.  (ChartSpec) *)

\* Date.now(): 2024-03-15 at 00:00, 10:10, 10:30, 10:45 and 23:59 UTC
ChartClocks ==
    {DateUTC(2024, 3, 15) + t :
        t \in {0, 10 * HourMs + 10 * MinuteMs, 10 * HourMs + 30 * MinuteMs,
               10 * HourMs + 45 * MinuteMs, DayMs - MinuteMs}}

\* server time zones: UTC, UTC+1, UTC+5:30
ChartZones == {0, HourMs, 5 * HourMs + 30 * MinuteMs}

\* req.query.startTimestamp: absent, malformed, zero, 2024-03-14 10:17 UTC
\* and 2024-03-14 10:00 UTC
StartTimestampInputs ==
    {<<>>, <<"a">>, <<"0">>,
     <<"2", "8", "5", "0", "6", "8", "5", "7">>,
     <<"2", "8", "5", "0", "6", "8", "4", "0">>}

\* the route: startTs is the parsed number when it is a positive number,
\* undefined otherwise
ParseStartTimestamp(startTimestamp) ==
    IF startTimestamp = <<>> THEN Undefined
    ELSE LET parsed == parseInt(startTimestamp)
         IN IF ~IsNaN(parsed) /\ parsed.n > 0 THEN parsed ELSE Undefined

\* Date.prototype.setMinutes(m, 0, 0) on a server tz minutes east of UTC
setMinutes(ts, m, tz) == ((ts + tz) \div HourMs) * HourMs + m * MinuteMs - tz

\* alignedStartTs of getTemperatureChartData
alignedStartTs(startTimestamp, now, tz) ==
    IF Truthy(startTimestamp) THEN setMinutes(startTimestamp.n, 0, tz)
    ELSE setMinutes(now, 30, tz)

\* the window of the queries: 24 hours back from alignedStartTs
ChartWindow(startTimestamp, now, tz) ==
    Window(alignedStartTs(startTimestamp, now, tz) - 24 * HourMs,
           alignedStartTs(startTimestamp, now, tz))

\* d.name?.startsWith('t_sensor') || d.name?.startsWith('Indusmind_T_Sensor')
IsChartSensor(d) == d.name = "t_sensor"

\* the sensors queried: all of them, or those named in sensorIds
sensorsToFetch(allDevices, sensorIds) ==
    SelectSeq(allDevices,
              LAMBDA d : IsChartSensor(d) /\ (sensorIds = <<>> \/ d.deviceUUID \in sensorIds[1]))

\* one point of a sensor's chart (values are whole degrees)
ChartDataPoint(point) == [timestamp |-> point.ts, value |-> parseFloat(point.value)]

\* the sensor's entry: its hourly points, or none when the fetch failed
SensorChartData(sensor, outcome, window) ==
    [deviceUUID |-> sensor.deviceUUID,
     data |-> IF outcome = "fulfilled"
              THEN MapSeq(ChartDataPoint,
                          <<Point(window.start, RawNum(20 + sensor.deviceUUID)),
                            Point(window.start + HourMs, RawNum(21))>>)
              ELSE <<>>]

ChartResponse(success, sensors) == [success |-> success, sensors |-> sensors]

\* a request that has reached the route
ChartRequest(startTimestamp, sensorIds, outcome, devices) ==
    [pc |-> "route", startTimestamp |-> startTimestamp, sensorIds |-> sensorIds,
     devicesOutcome |-> outcome, allDevices |-> devices, window |-> <<>>,
     queries |-> <<>>, task |-> <<>>, data |-> <<>>, resp |-> <<>>]

ChartInit ==
    /\ ViewIdle
    /\ RetryIdle
    /\ clock \in ChartClocks
    /\ zone \in ChartZones
    /\ fetched = <<>>
    /\ calc = NoCalc
    /\ relay = NoCall
    /\ energy = NoCall
    /\ meters = NoCall
    /\ \E startTimestamp \in StartTimestampInputs, sensorIds \in {<<>>, <<{1}>>},
          outcome \in {"fulfilled", "rejected"}, devices \in DeviceLists :
            thermal = ChartRequest(startTimestamp, sensorIds, outcome, devices)

\* the route parses the query; the service computes the window and calls
\* getDevices
ChartStart ==
    /\ thermal.pc = "route"
    /\ ThermalStep([thermal EXCEPT
           !.pc = "chartDevices",
           !.window = <<ChartWindow(ParseStartTimestamp(thermal.startTimestamp), clock, zone)>>])

\* getDevices settles: a rejection is caught (success:false); without sensors
\* the early return; else one getTimeseries query per sensor over the window
ChartDevicesSettle ==
    /\ thermal.pc = "chartDevices"
    /\ LET sensors == sensorsToFetch(thermal.allDevices, thermal.sensorIds)
       IN IF thermal.devicesOutcome = "rejected"
          THEN ThermalStep([thermal EXCEPT !.pc = "done", !.resp = <<ChartResponse(FALSE, <<>>)>>])
          ELSE IF sensors = <<>>
          THEN ThermalStep([thermal EXCEPT !.pc = "done", !.resp = <<ChartResponse(TRUE, <<>>)>>])
          ELSE ThermalStep([thermal EXCEPT
                   !.pc = "chartFanout",
                   !.queries = [k \in 1..Len(sensors) |->
                                   [deviceUUID |-> sensors[k].deviceUUID,
                                    startTs |-> thermal.window[1].start,
                                    endTs |-> thermal.window[1].end]],
                   !.task = [k \in 1..Len(sensors) |-> "pending"],
                   !.data = [k \in 1..Len(sensors) |->
                                SensorChartData(sensors[k], "rejected", thermal.window[1])]])

\* the query of sensor k settles
ChartSensorSettles(k, outcome) ==
    /\ thermal.pc = "chartFanout"
    /\ k \in 1..Len(thermal.queries)
    /\ thermal.task[k] = "pending"
    /\ ThermalStep([thermal EXCEPT
           !.task[k] = outcome,
           !.data[k] = SensorChartData(
                          sensorsToFetch(thermal.allDevices, thermal.sensorIds)[k],
                          outcome, thermal.window[1])])

\* Promise.all resolves
ChartJoin ==
    /\ thermal.pc = "chartFanout"
    /\ \A k \in 1..Len(thermal.queries) : thermal.task[k] # "pending"
    /\ ThermalStep([thermal EXCEPT !.pc = "done", !.resp = <<ChartResponse(TRUE, thermal.data)>>])

ChartNext ==
    \/ ChartStart
    \/ ChartDevicesSettle
    \/ \E k \in 1..NumSensors : \E outcome \in {"fulfilled", "rejected"} :
          ChartSensorSettles(k, outcome)
    \/ ChartJoin

ChartSpec == ChartInit /\ [][ChartNext]_vars

----------------------------------------------------------------------------
(* Properties of the view services and routes (Spec) *)

\* the sub-queries whose getTimeseries call was rejected
FailedSubs == {i \in 1..SubQueryCount(route) : tsCall[i] \in {"error", "notfound"}}

\* the field of the power view's data block that sub-query i feeds
PuissanceFields ==
    <<"instantaneousPower", "consumedThisHour", "consumedToday",
      "consumedYesterday", "consumedThisMonth", "consumedLastMonth",
      "hourlyData", "dailyData", "monthlyData">>

\* the field of the current view's data block that sub-query i feeds
CurrentFields ==
    <<"instantaneousCurrent", "lastHourMin", "lastHourAverage", "lastHourMax",
      "todayAverage", "widgetData", "hourlyData", "dailyWeekData",
      "dailyMonthData", "dailyYearData">>

\* the upstream's answers to all sub-queries of the request, none failing
AllAnswers == [j \in 1..SubQueryCount(route) |-> Upstream(scenario, j)]
\* C1: power view, device resolved, a non-empty strict subset of the nine
\* sub-queries rejected: the response is 200 success:true, every KPI fed by a
\* failed sub-query is null and every series fed by one is empty, and every
\* other field has the value it has when no sub-query fails.
C1_PowerPartialFailureIsolation ==
    (/\ route = "puissance"
     /\ resp.sent
     /\ device = "ok"
     /\ FailedSubs # {}
     /\ FailedSubs # 1..9)
    => /\ resp.status = 200
       /\ resp.success
       /\ \A i \in 1..9 :
            resp.data[PuissanceFields[i]] =
                IF i \in FailedSubs
                THEN PuissanceEmptyData[PuissanceFields[i]]
                ELSE PuissanceData(AllAnswers)[PuissanceFields[i]]

C1_Witness ==
    /\ route = "puissance"
    /\ resp.sent
    /\ resp.success
    /\ FailedSubs # {}
    /\ \E i \in FailedSubs : Upstream(scenario, i) # <<>>
    /\ \E i \in (1..9) \ FailedSubs :
            resp.data[PuissanceFields[i]] # PuissanceEmptyData[PuissanceFields[i]]

\* C2 (as claimed): current view, device resolved, exactly one of the ten
\* sub-queries rejected and the others fulfilled: the response is 200
\* success:true with the values of the nine others unchanged.
C2_CurrentPartialFailureIsolation ==
    (/\ route = "current"
     /\ resp.sent
     /\ device = "ok"
     /\ Cardinality(FailedSubs) = 1
     /\ \A i \in 1..10 : tsCall[i] # "pending")
    => /\ resp.status = 200
       /\ resp.success
       /\ \A i \in (1..10) \ FailedSubs :
            resp.data[CurrentFields[i]] =
                CurrentData(AllAnswers, NowOf(scenario), TzOf(scenario))[CurrentFields[i]]

\* C6 (as claimed): a view's response is produced only once every sub-query
\* fanned out for the request has settled.
C6_JoinNotRace ==
    (route \in {"puissance", "current"} /\ resp.sent)
    => \A i \in 1..SubQueryCount(route) : tsCall[i] # "pending"

\* C8 (as claimed): when validateDevice does not resolve the device, the
\* response is 404 with success:false, on every device-scoped endpoint.
C8_DeviceNotFoundIs404 ==
    (resp.sent /\ device = "notfound")
    => (resp.status = 404 /\ ~resp.success)

\* C9 (as claimed): the power view answers non-200 with success:false and an
\* error string exactly when the device is not resolved or all nine
\* sub-queries failed, and every success:false body carries an error string.
C9_HardFailureOnlyWhenNothingServed ==
    (route = "puissance" /\ resp.sent)
    => /\ (resp.status # 200 /\ ~resp.success)
            <=> (device # "ok" \/ FailedSubs = 1..9)
       /\ ~resp.success => resp.error # "none"

\* a parameter made of decimal digits only
IsNumeric(s) == s # <<>> /\ \A k \in 1..Len(s) : IsDigit(s[k])

\* the invalid requests C10 lists: a required parameter missing, a
\* non-numeric timestamp, startTs >= endTs, an empty key list
InvalidParameters(r, q) ==
    \/ q.startTs = <<>> \/ q.endTs = <<>>
    \/ ~IsNumeric(q.startTs) \/ ~IsNumeric(q.endTs)
    \/ parseInt(q.startTs).n >= parseInt(q.endTs).n
    \/ r = "timeseries" /\ (q.keys = <<>> \/ ParseKeys(q.keys) = <<>>)

\* C10 (as claimed): on /timeseries and /kpis a request with invalid
\* parameters is answered 400, and no outbound call has been made for it.
C10_ValidationPrecedesOutbound ==
    (/\ route \in {"timeseries", "kpis"}
     /\ resp.sent
     /\ InvalidParameters(route, query))
    => /\ resp.status = 400
       /\ outbound.device = 0
       /\ outbound.telemetry = 0

\* an optional parameter that is supplied and is not a positive integer
NotPositiveInteger(s) == s # <<>> /\ ~(IsNumeric(s) /\ parseInt(s).n >= 1)

\* the value is absent, or a number >= 1
AbsentOrPositive(value) == value = Undefined \/ (value.t = "num" /\ value.n >= 1)

\* C11 (as claimed): on the pass-through timeseries routes a supplied interval
\* or limit that is not a positive integer is answered 400 without calling
\* getTimeseries (unless the device could not be resolved), and getTimeseries
\* is only ever called with interval and limit absent or >= 1.
C11_PositiveIntervalAndLimit ==
    route \in PassThroughRoutes
    => /\ (/\ resp.sent
           /\ device \notin {"notfound", "error"}
           /\ NotPositiveInteger(query.interval) \/ NotPositiveInteger(query.limit))
          => (resp.status = 400 /\ outbound.telemetry = 0)
       /\ outbound.telemetry > 0
          => /\ AbsentOrPositive(OptionalNumber(query.interval))
             /\ AbsentOrPositive(OptionalNumber(query.limit))

----------------------------------------------------------------------------
(* Properties of the retry loop (RetrySpec) *)

TimeseriesCalls == {c \in CallIds : calls[c].kind = "timeseries"}

Only401(c) == calls[c].last \in {"none", "401"}

\* position of a call in its retry loop; every step of the call raises it
Rank(call) ==
    CASE call.pc = "idle" -> 0
      [] call.pc = "auth" -> 4 * call.retryCount + 1
      [] call.pc = "request" -> 4 * call.retryCount + 2
      [] call.pc = "delay" -> 4 * call.retryCount + 3
      [] call.pc = "refresh" -> 4 * call.retryCount + 4
      [] OTHER -> 17

\* C4: against an upstream answering 401 to every request, a getTimeseries
\* or getLatestAttributes call makes at most 3 refreshToken calls and then
\* ends in failure (getTimeseries rejects, getLatestAttributes returns null);
\* every step of a call moves it forward in a loop of at most 17 positions,
\* so no call retries without bound.
C4_RetryTermination ==
    /\ [](\A c \in CallIds :
            /\ calls[c].refreshes <= 3
            /\ Rank(calls[c]) <= 17
            /\ Only401(c) =>
                /\ (calls[c].requests = 4 /\ calls[c].last = "401"
                        /\ calls[c].pc # "request")
                      => calls[c].pc = "done"
                /\ calls[c].pc = "done" =>
                      calls[c].result =
                          (IF calls[c].kind = "timeseries" THEN "rejected" ELSE "null"))
    /\ [][\A c \in CallIds :
            calls'[c] # calls[c] => Rank(calls'[c]) > Rank(calls[c])]_vars

C4_Witness ==
    \E c \in CallIds :
        /\ calls[c].kind = "attributes"
        /\ calls[c].pc = "done"
        /\ calls[c].last = "401"
        /\ calls[c].refreshes = 3
        /\ calls[c].result = "null"

NonAuthFailures == {"400", "404", "500", "throw"}

\* C5: once a getTimeseries request is answered with a status other than 200
\* and 401, or throws, the call has rejected and it issues no further
\* request and no refreshToken call.
C5_NonAuthNeverRetried ==
    /\ [](\A c \in TimeseriesCalls :
            calls[c].last \in NonAuthFailures
                => (calls[c].pc = "done" /\ calls[c].result = "rejected"))
    /\ [][\A c \in CallIds :
            (calls[c].kind = "timeseries" /\ calls[c].last \in NonAuthFailures)
                => /\ calls'[c].requests = calls[c].requests
                   /\ calls'[c].refreshes = calls[c].refreshes
                   /\ calls'[c].result = "rejected"]_vars

C5_Witness ==
    \E c \in TimeseriesCalls :
        /\ calls[c].last = "500"
        /\ calls[c].refreshes = 1
        /\ calls[c].requests = 2
        /\ calls[c].result = "rejected"

\* C7 (as claimed): concurrent calls that hit the same stale token share one
\* refresh: at most one refreshToken invocation is in flight at any time.
C7_DeduplicatedRefresh ==
    Cardinality({c \in TimeseriesCalls : calls[c].pc = "refresh"}) <= 1

----------------------------------------------------------------------------
(* Properties of the time windows (RangeSpec) *)

\* C18 (as claimed): every window calculateTimeRanges produces for the power,
\* current and global-meters views has start < end, for every clock.
C18_WindowStartBeforeEnd ==
    calc.op \in {"puissance", "current", "globalMeters"}
    => \A w \in DOMAIN calc.out : calc.out[w].start < calc.out[w].end

\* C19: for every clock, the power view's lastMonth starts at the first
\* instant (UTC) of the calendar month before the clock's month (December of
\* the previous year when the clock is in January) and ends at the last
\* instant before thisMonth.start (one tick of the model's resolution, where
\* the code has one millisecond), thisMonth starting at the first instant of
\* the clock's month.
C19_LastMonthIsPreviousCalendarMonth ==
    calc.op = "puissance"
    => LET d     == UTCDate(clock)
           prevY == IF d.m = 1 THEN d.y - 1 ELSE d.y
           prevM == IF d.m = 1 THEN 12 ELSE d.m - 1
       IN /\ calc.out.thisMonth.start = DateUTC(d.y, d.m, 1)
          /\ calc.out.lastMonth.start = DateUTC(prevY, prevM, 1)
          /\ calc.out.lastMonth.end = calc.out.thisMonth.start - 1
          /\ UTCDate(calc.out.lastMonth.end) =
                [y |-> prevY, m |-> prevM, d |-> DaysInMonth(prevY, prevM)]

\* 31 March of a leap year: the previous month is the 29-day February
C19_Witness ==
    /\ calc.op = "puissance"
    /\ UTCDate(clock) = [y |-> 2024, m |-> 3, d |-> 31]
    /\ calc.out.lastMonth.start = DateUTC(2024, 2, 1)
    /\ UTCDate(calc.out.lastMonth.end) = [y |-> 2024, m |-> 2, d |-> 29]

\* C20 (as claimed): for every clock and every server time zone, the today
\* window of the power view, the current view, the global-meters view and the
\* KPI calculator runs from UTC midnight of the clock's day to the clock.
C20_TodayStartsAtUtcMidnight ==
    calc.op \in {"puissance", "current", "globalMeters", "kpis"}
    => /\ calc.out.today.start =
              DateUTC(UTCDate(clock).y, UTCDate(clock).m, UTCDate(clock).d)
       /\ calc.out.today.end = clock

----------------------------------------------------------------------------
(* Properties of the reducers (ReduceSpec) *)

\* every raw point carries a value that parses as a number
WellFormed(data) == \A i \in 1..Len(data) : data[i].value.ok

\* the sum of the values of well-formed points
SumOfValues(data) == Num(FoldLeft(LAMBDA acc, p : acc + p.value.n, 0, data))

\* C12 (as claimed): over well-formed points, a scalar KPI reduction is null
\* exactly when the sub-query returned no point; the sum reductions return the
\* sum of the values (0 when they total 0) and the latest reductions the value
\* of the latest point (0 when it is 0).
C12_NullVersusZero ==
    (calc.op \in {"puissance", "globalMeters", "current"} /\ WellFormed(fetched))
    => /\ calc.op = "puissance" =>
            /\ calc.out.consumed = (IF fetched = <<>> THEN Null ELSE SumOfValues(fetched))
            /\ calc.out.instantaneousPower =
                  (IF fetched = <<>> THEN Null ELSE Num(fetched[Len(fetched)].value.n))
       /\ calc.op = "globalMeters" =>
            /\ calc.out.consumed = (IF fetched = <<>> THEN Null ELSE SumOfValues(fetched))
            /\ calc.out.instantaneous =
                  (IF fetched = <<>> THEN Null ELSE Num(fetched[Len(fetched)].value.n))
       /\ calc.op = "current" =>
            calc.out.single = (IF fetched = <<>> THEN Null ELSE Num(fetched[1].value.n))

\* months since year 0 of the UTC calendar month an instant falls in
MonthIndex(ts) == UTCDate(ts).y * 12 + UTCDate(ts).m - 1

RECURSIVE MaxTs(_)
MaxTs(s) ==
    IF Len(s) = 1 THEN s[1].ts
    ELSE LET m == MaxTs(Tail(s)) IN IF s[1].ts > m THEN s[1].ts ELSE m

\* the points of data that fall in UTC month index mi
PointsOfMonth(data, mi) == SelectSeq(data, LAMBDA p : MonthIndex(p.ts) = mi)

\* C13 (as claimed): for a non-empty point array, aggregateToMonths returns
\* exactly the calendar months (UTC) from the month of the earliest point to
\* the month of the latest, each once, ascending, null where no point falls.
C13_MonthSpanCompleteness ==
    (calc.op = "current" /\ extractTimeseriesData(fetched) # <<>>)
    => LET data == extractTimeseriesData(fetched)
           out  == calc.out.dailyYearData
           lo   == MonthIndex(MinTs(data))
           hi   == MonthIndex(MaxTs(data))
       IN /\ Len(out) = hi - lo + 1
          /\ \A k \in 1..Len(out) :
                /\ out[k].year * 12 + out[k].month - 1 = lo + k - 1
                /\ (out[k].value = Null) <=> (PointsOfMonth(data, lo + k - 1) = <<>>)

\* C13 (amended): for a non-empty point array, aggregateToMonths returns the
\* twelve months of every UTC calendar year in which a point falls, and no
\* other month: 12 points per such year, each month once, stamped with the
\* first instant (UTC) of the month, in ascending order, carrying the average
\* of the month's points, or null for a month without points.
C13_TwelveMonthsOfEveryYear ==
    (calc.op = "current" /\ extractTimeseriesData(fetched) # <<>>)
    => LET data  == extractTimeseriesData(fetched)
           out   == calc.out.dailyYearData
           years == {UTCDate(data[i].ts).y : i \in 1..Len(data)}
       IN /\ Len(out) = 12 * Cardinality(years)
          /\ \A y \in years : \A m \in 1..12 :
                Cardinality({k \in 1..Len(out) :
                                out[k].year = y /\ out[k].month = m}) = 1
          /\ \A k \in 1..Len(out) :
                /\ out[k].year \in years
                /\ out[k].month \in 1..12
                /\ out[k].ts = DateUTC(out[k].year, out[k].month, 1)
                /\ k < Len(out) => out[k].ts < out[k + 1].ts
                /\ LET pts == PointsOfMonth(data, out[k].year * 12 + out[k].month - 1)
                   IN IF pts = <<>> THEN out[k].value = Null
                      ELSE /\ out[k].value.t = "num"
                           /\ out[k].value.n * Len(pts)
                                = SumOfValues(pts).n
                                    * out[k].value.d

\* points of two calendar years, more months returned than the points span
C13_Witness ==
    /\ calc.op = "current"
    /\ extractTimeseriesData(fetched) # <<>>
    /\ Len(calc.out.dailyYearData) = 24
    /\ MonthIndex(MaxTs(extractTimeseriesData(fetched)))
         - MonthIndex(MinTs(extractTimeseriesData(fetched))) + 1 < 24
    /\ \E k \in 1..24 : calc.out.dailyYearData[k].value \notin {Null, Num(0)}

\* the hour buckets of today (UTC) up to and including the current hour
HourBuckets(now) ==
    [k \in 1..((now - setUTCHoursStart(now)) \div HourMs + 1) |->
        setUTCHoursStart(now) + (k - 1) * HourMs]

\* C14 (as claimed): when the today-hourly sub-query of the power view returns
\* well-formed points stamped with hour buckets of today, hourlyData has one
\* point per hour bucket from midnight UTC up to the current hour, in order,
\* carrying the upstream value of the bucket, or null where there is none.
C14_HourlyGapFill ==
    (/\ calc.op = "puissance"
     /\ WellFormed(fetched)
     /\ \A i \in 1..Len(fetched) :
            \E k \in DOMAIN HourBuckets(clock) : fetched[i].ts = HourBuckets(clock)[k])
    => LET out == calc.out.chart
       IN /\ Len(out) = Len(HourBuckets(clock))
          /\ \A k \in 1..Len(out) :
                /\ out[k].ts = HourBuckets(clock)[k]
                /\ out[k].value =
                      (IF \E i \in 1..Len(fetched) : fetched[i].ts = out[k].ts
                       THEN Num((CHOOSE p \in {fetched[i] : i \in 1..Len(fetched)} :
                                    p.ts = out[k].ts).value.n)
                       ELSE Null)

\* the local calendar days of the last-30-days window [now - 30 days, now)
WindowDays(now, tz) == {LocalDate(now - k * DayMs, tz) : k \in 0..30}

\* C15 (as claimed): when the last-30-days sub-query of the current view
\* returns well-formed daily points of its window [now - 30 days, now), one
\* per local day, every point appears in dailyMonthData on its own day with
\* its own value, and every day of the window is present.
C15_LastThirtyDaysLosesNoData ==
    (/\ calc.op = "current"
     /\ WellFormed(fetched)
     /\ \A i \in 1..Len(fetched) :
            /\ fetched[i].ts >= clock - 30 * DayMs
            /\ fetched[i].ts < clock
     /\ \A i \in 1..Len(fetched) : \A j \in 1..Len(fetched) :
            i # j => LocalDate(fetched[i].ts, zone) # LocalDate(fetched[j].ts, zone))
    => LET out == calc.out.dailyMonthData
       IN /\ \A i \in 1..Len(fetched) :
                \E k \in 1..Len(out) :
                    /\ out[k].date = LocalDate(fetched[i].ts, zone)
                    /\ out[k].value = Num(fetched[i].value.n)
          /\ \A day \in WindowDays(clock, zone) :
                \E k \in 1..Len(out) : out[k].date = day

\* a series in ascending order of timestamp
Ascending(series) == \A k \in 1..(Len(series) - 1) : series[k].ts <= series[k + 1].ts

\* C16 (as claimed): every chart series of the power, current and
\* global-meters views is in ascending order of timestamp, whatever the order
\* in which the upstream returned the raw points.
C16_ChronologicalSeries ==
    /\ calc.op = "puissance" => Ascending(calc.out.chart)
    /\ calc.op = "current" =>
            /\ Ascending(calc.out.series)
            /\ Ascending(calc.out.dailyMonthData)
            /\ Ascending(calc.out.dailyYearData)
    /\ calc.op = "globalMeters" => Ascending(calc.out.chart)

\* the raw points without the malformed ones
WithoutMalformed(data) == SelectSeq(data, LAMBDA p : p.value.ok)

\* C17 (as claimed): a raw point whose value does not parse as a number
\* contributes nothing: every chart series and every sum is what it is when
\* the malformed points are left out of the raw points.
C17_MalformedExcluded ==
    /\ calc.op = "puissance" =>
            /\ calc.out.chart = PuissanceReduced(WithoutMalformed(fetched)).chart
            /\ calc.out.consumed = PuissanceReduced(WithoutMalformed(fetched)).consumed
    /\ calc.op = "current" =>
            LET clean == CurrentReduced(WithoutMalformed(fetched), clock, zone)
            IN /\ calc.out.series = clean.series
               /\ calc.out.dailyMonthData = clean.dailyMonthData
               /\ calc.out.dailyYearData = clean.dailyYearData
    /\ calc.op = "globalMeters" =>
            /\ calc.out.chart = GlobalMetersReduced(WithoutMalformed(fetched)).chart
            /\ calc.out.consumed = GlobalMetersReduced(WithoutMalformed(fetched)).consumed
    /\ calc.op = "energyHistory" =>
            calc.out.chart = EnergyHistoryReduced(WithoutMalformed(fetched)).chart


----------------------------------------------------------------------------
(* Properties of the thermal management view (ThermalSpec) *)

\* the request has answered with a response built from a device list
ThermalAnswered == thermal.pc = "done" /\ ~thermal.resp[1].threw

\* C21: Thermal per-sensor isolation.  Whatever subset of the telemetry and
\* attribute fetches fails, the response is success:true with one entry per
\* T_Sensor device in device-list order, sensorCount = totalSensors = their
\* number; a failed telemetry fetch nulls that sensor's telemetry fields, a
\* failed attribute fetch nulls that sensor's metadata fields, and every other
\* field is what that sensor's own two answers give.
C21_PerSensorIsolation ==
    ThermalAnswered =>
        LET r == thermal.resp[1]
            expected == temperatureSensors(thermal.allDevices)
        IN /\ r.success
           /\ Len(r.sensors) = Len(expected)
           /\ r.sensorCount = Len(expected)
           /\ r.summary.totalSensors = Len(expected)
           /\ \A k \in 1..Len(expected) :
                LET uuid == expected[k].deviceUUID
                    tel == thermal.telemetry[uuid]
                    att == thermal.attributes[uuid]
                IN /\ r.sensors[k].deviceUUID = uuid
                   /\ r.sensors[k].telemetry =
                        IF tel.rejected THEN NullTelemetry
                        ELSE fetchSensorTelemetry(uuid, tel).value
                   /\ r.sensors[k].metadata =
                        IF att.null THEN NullMetadata
                        ELSE fetchSensorMetadata(uuid, att).value

\* two sensors, the telemetry of the first and the attributes of the second
\* failed, and the response is out
C21_Witness ==
    /\ ThermalAnswered
    /\ Len(thermal.resp[1].sensors) >= 2
    /\ thermal.telemetry[thermal.sensors[1].deviceUUID].rejected
    /\ ~thermal.attributes[thermal.sensors[1].deviceUUID].null
    /\ ~thermal.telemetry[thermal.sensors[2].deviceUUID].rejected
    /\ thermal.attributes[thermal.sensors[2].deviceUUID].null
    /\ thermal.resp[1].sensors[1].metadata.active = "true"
    /\ thermal.resp[1].sensors[2].telemetry.temperature # Null

\* debug.requests of the schedule in which the fetches settle in device order
RECURSIVE RequestsInDeviceOrder(_, _, _)
RequestsInDeviceOrder(sensors, telemetry, attributes) ==
    IF sensors = <<>> THEN <<>>
    ELSE LET uuid == Head(sensors).deviceUUID
         IN <<fetchSensorTelemetry(uuid, telemetry[uuid]).pushed,
              fetchSensorMetadata(uuid, attributes[uuid]).pushed>>
            \o RequestsInDeviceOrder(Tail(sensors), telemetry, attributes)

\* C22: No shared mutable state between the per-sensor tasks.  The content and
\* order of debug.requests are a function of the device list and the upstream
\* answers: every interleaving of the tasks yields the array that the schedule
\* settling the fetches in device order yields.
C22_DebugRequestsIndependentOfInterleaving ==
    (ThermalAnswered /\ thermal.resp[1].debug # <<>>) =>
        thermal.resp[1].debug[1] =
            RequestsInDeviceOrder(thermal.sensors, thermal.telemetry, thermal.attributes)


----------------------------------------------------------------------------
(* Properties of the current view's debug block (ReduceSpec) *)

\* C23: Debug reports raw point counts.  For every sub-query of the current
\* view, resultPoints of its debug entry is the number of raw points the
\* upstream returned for it (0 when it returned none), whatever gap-filling or
\* month-folding is applied to the series afterwards.
C23_ResultPointsAreRawCounts ==
    calc.op = "current" =>
        \A kind \in {"scalar", "series", "dailyMonthData", "dailyYearData"} :
            calc.out.resultPoints[kind] = Len(fetched)


----------------------------------------------------------------------------
(* Properties of the KPI calculator (KpiSpec) *)

\* the accumulated-energy points handed to calculateKPIs
AccumulatedPoints ==
    {fetched[i] : i \in {j \in 1..Len(fetched) :
                            fetched[j].key = "AccumulatedActiveEnergyDelivered"}}

\* the accumulated series is one point at yesterday's start and one at
\* yesterday's end (its last minute, or the first instant of today)
ScenarioC(startPoint, endPoint) ==
    /\ AccumulatedPoints = {startPoint, endPoint}
    /\ startPoint.ts = setUTCHoursStart(clock) - DayMs
    /\ endPoint.ts \in {setUTCHoursStart(clock) - MinuteMs, setUTCHoursStart(clock)}

----------------------------------------------------------------------------
(* Properties of the energy-history endpoints (EnergySpec) *)

\* what GET /energy-history?devices=deviceUUID decides for the query of the
\* request at hand
ListDecision == getEnergyHistory([energy.q EXCEPT !.devices = energy.deviceUUID])

\* C25: Convenience endpoint equivalence.  GET /:deviceUUID/energy-history
\* answers with the status and body, and issues the upstream queries, that
\* GET /energy-history?devices=deviceUUID does for the same query and the same
\* upstream answers, startDate >= endDate included.
C25_ConvenienceEndpointEquivalence ==
    (energy.pc # "none" /\ energy.endpoint = "deviceEnergyHistory") =>
        /\ energy.pc # "received" =>
              energy.requests = IF ListDecision.status = 400 THEN <<>>
                                ELSE buildDataRequests(ListDecision.query[1])
        /\ energy.pc = "done" =>
              energy.resp[1] = IF ListDecision.status = 400
                               THEN EnergyErrorResponse(ListDecision)
                               ELSE EnergyResponse(ListDecision.query[1], energy.results,
                                                   energy.q.debug, zone)

\* the service has answered
EnergyAnswered == energy.pc = "done" /\ energy.resp[1].status = 200

\* the series the response would hold for sub-query i if it were the only one
SeriesOfSubQuery(i) ==
    LET req == energy.requests[i]
        single == [energy.decision[1].query[1] EXCEPT
                      !.deviceUUIDList = <<req.deviceUUID>>,
                      !.metricTypes = <<req.metricType>>]
    IN EnergyHistoryData(single, <<executeRequest(req, energy.sub[i])>>,
                         zone)[req.deviceUUID][req.metricType]

IsHour(hourQuery) ==
    /\ hourQuery # <<>>
    /\ parseInt(hourQuery).t = "num"
    /\ parseInt(hourQuery).n \in 0..23

\* C29: Hour-range filter.  When hourFrom and/or hourTo are supplied with
\* values 0..23 (a missing bound being 0, respectively 23), every series
\* holds exactly the transformed points whose hour h satisfies
\* hourFrom <= h <= hourTo, in their original order; hourFrom = 0 and
\* hourTo = 0 included.
C29_HourRangeFilter ==
    (/\ EnergyAnswered
     /\ IsHour(energy.q.hourFrom) \/ IsHour(energy.q.hourTo)
     /\ energy.q.hourFrom = <<>> \/ IsHour(energy.q.hourFrom)
     /\ energy.q.hourTo = <<>> \/ IsHour(energy.q.hourTo)) =>
        LET hourFrom == IF energy.q.hourFrom = <<>> THEN 0 ELSE parseInt(energy.q.hourFrom).n
            hourTo == IF energy.q.hourTo = <<>> THEN 23 ELSE parseInt(energy.q.hourTo).n
        IN \A i \in 1..Len(energy.requests) :
            LET req == energy.requests[i]
            IN energy.resp[1].data[1][req.deviceUUID][req.metricType] =
                  SelectSeq(TransformedSeries(energy.results[i]),
                            LAMBDA point : /\ hourFrom <= getHours(point.ts, zone)
                                           /\ getHours(point.ts, zone) <= hourTo)


----------------------------------------------------------------------------
(* Properties of the global-meters batch (MetersSpec) *)

\* the positions of the request whose device was resolved
ResolvedPositions == {i \in 1..Len(meters.deviceUUIDs) : meters.task[i] = "resolved"}

\* C28: Global-meters batch isolation.  For a non-empty device list and any
\* per-device failure pattern, the response is success:true and holds one
\* entry per resolved device and none for the others, in request order, with
\* meta.count the length of data; each entry is what the device's own fetches
\* give, whatever happened to the other devices.
C28_BatchIsolation ==
    (meters.pc = "done" /\ meters.deviceUUIDs # <<>>) =>
        LET r == meters.resp[1]
        IN /\ r.success
           /\ r.count = Len(r.data)
           /\ Len(r.data) = Cardinality(ResolvedPositions)
           /\ \A i \in ResolvedPositions :
                LET k == Cardinality({j \in ResolvedPositions : j <= i})
                IN r.data[k] = GlobalMeterData(meters.deviceUUIDs[i], meters.failed[i])

\* two devices requested as 2, 1: device 2 is not found, device 1 resolves
\* with its first fetch failed, and the response holds device 1 alone
C28_Witness ==
    /\ meters.pc = "done"
    /\ meters.deviceUUIDs = <<2, 1>>
    /\ meters.task = <<"rejected", "resolved">>
    /\ meters.failed[2] = {1}
    /\ meters.resp[1].count = 1
    /\ meters.resp[1].data[1].deviceUUID = 1
    /\ meters.resp[1].data[1].status = "offline"
    /\ meters.resp[1].data[1].today = Num(12)


----------------------------------------------------------------------------
(* Properties of the relay control (RelaySpec) *)

\* the devices of the list with a given UUID, respectively name
DevicesWithUUID(uuid) ==
    {i \in 1..Len(relay.allDevices) : relay.allDevices[i].deviceUUID = uuid}
DevicesNamed(name) ==
    {i \in 1..Len(relay.allDevices) : relay.allDevices[i].name = name}

\* C26: Relay write safety.  controlRelay calls updateAttributes at most once,
\* and only after the sensor device, its controllerUUID attribute, its relay
\* attribute and the controller device have been resolved; the write targets
\* the controller device with active = true for 'start' and false for 'stop';
\* in every other case the call returns success:false without writing, and it
\* never throws.
C26_RelayWriteSafety ==
    relay.pc # "none" =>
        /\ Len(relay.writes) <= 1
        /\ relay.writes # <<>> =>
            /\ relay.devicesOutcome = "fulfilled"
            /\ DevicesWithUUID(relay.deviceUUID) # {}
            /\ ~relay.attributes.null
            /\ relay.attributes.controllerUUID # ""
            /\ relay.attributes.relay # ""
            /\ DevicesNamed(relay.attributes.controllerUUID) # {}
            /\ relay.writes[1].entityId \in DevicesNamed(relay.attributes.controllerUUID)
            /\ relay.writes[1].active = (relay.action = "start")
        /\ relay.pc = "done" =>
            /\ ~relay.resp[1].threw
            /\ relay.writes = <<>> => ~relay.resp[1].success

\* a 'stop' for sensor 1, whose controller is device 2: one write of
\* active = false to device 2, answered, and the call returns success
C26_Witness ==
    /\ relay.pc = "done"
    /\ relay.deviceUUID = 1
    /\ relay.action = "stop"
    /\ relay.writes = <<[entityId |-> 2, active |-> FALSE]>>
    /\ relay.resp[1].success


----------------------------------------------------------------------------
(* Properties of the thermal chart window (ChartSpec) *)

\* the start of the hour containing ts, on the server's clock
HourStart(ts) == ts - ((ts + zone) % HourMs)

\* C30: Thermal chart window alignment.  Every query of
\* getTemperatureChartData spans exactly 24 hours and ends at the start of an
\* hour: of the hour containing startTimestamp when one is provided, of the
\* current hour (so not after now) when it is omitted.
C30_ChartWindowAlignment ==
    \A k \in 1..(IF thermal.pc \in {"chartFanout", "done"} THEN Len(thermal.queries) ELSE 0) :
        LET q == thermal.queries[k]
            startTimestamp == ParseStartTimestamp(thermal.startTimestamp)
        IN /\ q.endTs - q.startTs = 24 * HourMs
           /\ q.endTs = HourStart(q.endTs)
           /\ startTimestamp # Undefined => q.endTs = HourStart(startTimestamp.n)
           /\ startTimestamp = Undefined => (q.endTs = HourStart(clock) /\ q.endTs <= clock)

====
